---- MODULE Spec2Model ----
(***************************************************************************)
(* A model of the eden inode graph: TreeInode (eden/fs/inodes/             *)
(* TreeInode.cpp) with its lazy loading, materialization, create/remove/   *)
(* rename and checkout engine.  In-memory directory state, the overlay,    *)
(* the journal, the mount-wide rename lock and the per-directory contents  *)
(* locks are state variables; every operation is a small state machine run *)
(* by a thread, one step per locked section or overlay write.              *)
(***************************************************************************)
EXTENDS Integers, Sequences, FiniteSets, TLC

(***************************************************************************)
(* Bounds of the model.                                                    *)
(***************************************************************************)
\* Inode numbers the inode map may hand out (the 64-bit counter, capped).
MaxIno == 7

(***************************************************************************)
(* Values.                                                                 *)
(***************************************************************************)
\* folly::none for an Optional<Hash>, and the empty name.
None == "none"
NoName == ""
\* The root's fixed inode number.
kRootNodeId == 1
\* The reserved directory under the root.
kDotEdenName == ".eden"

\* PathMap and Tree keep their entries sorted by name; this is that order.
NameOrder == <<".eden", ".gitignore", "a", "b", "c", "d", "e", "f", "inner">>
Rank(n) == CHOOSE i \in 1..Len(NameOrder) : NameOrder[i] = n

RECURSIVE SortedNames(_)
\* The names of a set in PathMap order.
SortedNames(S) ==
  IF S = {} THEN <<>>
  ELSE LET m == CHOOSE x \in S : \A y \in S : Rank(x) <= Rank(y)
       IN <<m>> \o SortedNames(S \ {m})

(***************************************************************************)
(* The object store: immutable source-control trees by hash.  A tree entry *)
(* is [type, hash] with type "tree", "file" or "exe" (an executable file);  *)
(* blobs are "b1", "b2".                                                   *)
(***************************************************************************)
TE(type, hash) == [type |-> type, hash |-> hash]

TreeHashes == {"TE", "R1", "D1", "R2", "D2", "S1", "S2", "S3", "U1", "U2", "X1", "X2"}

\* ObjectStore::getTree(hash)->getTreeEntries(), as a map name -> entry.
TreeEntries(h) ==
  CASE h = "TE" -> <<>>
    [] h = "R1" -> ("a" :> TE("file", "b1")) @@ ("d" :> TE("tree", "D1"))
                   @@ ("e" :> TE("tree", "TE"))
    [] h = "D1" -> ("c" :> TE("file", "b1")) @@ ("inner" :> TE("tree", "TE"))
    [] h = "R2" -> ("a" :> TE("file", "b2")) @@ ("d" :> TE("tree", "D2"))
                   @@ ("e" :> TE("tree", "TE"))
    [] h = "D2" -> ("c" :> TE("file", "b2")) @@ ("inner" :> TE("tree", "TE"))
    [] h = "S1" -> ("a" :> TE("file", "b1")) @@ ("d" :> TE("tree", "U1"))
    [] h = "S2" -> ("a" :> TE("file", "b2")) @@ ("d" :> TE("tree", "U2"))
    [] h = "S3" -> ("a" :> TE("file", "b1"))
    [] h = "U1" -> ("a" :> TE("file", "b1"))
    [] h = "U2" -> ("a" :> TE("file", "b2"))
    [] h = "X1" -> ("a" :> TE("exe", "b1")) @@ ("d" :> TE("tree", "D1"))
                   @@ ("e" :> TE("tree", "TE"))
    [] h = "X2" -> ("a" :> TE("tree", "D1")) @@ ("c" :> TE("file", "b1"))
                   @@ ("d" :> TE("tree", "D2")) @@ ("inner" :> TE("tree", "D1"))

\* modeFromTreeEntryType()
modeFromTreeEntryType(type) ==
  IF type = "tree" THEN "dir" ELSE IF type = "exe" THEN "exe" ELSE "reg"

(***************************************************************************)
(* TreeInode::Entry and TreeInode::Dir.                                    *)
(***************************************************************************)
\* Entry(mode, hash): an unmaterialized entry without inode number.
EntryFromHash(mode, hash) ==
  [mode |-> mode, hash |-> hash, ino |-> 0, loaded |-> FALSE]
\* Entry(mode, inodeNumber): a materialized entry.
EntryFromIno(mode, ino) ==
  [mode |-> mode, hash |-> None, ino |-> ino, loaded |-> FALSE]

isMaterialized(e) == e.hash = None
hasInodeNumberNever(e) == FALSE
hasInodeNumber(e) == e.ino # 0
isDirectory(e) == e.mode = "dir"
\* Entry::setMaterialized / setDematerialized
setMaterialized(e, ino) == [e EXCEPT !.hash = None, !.ino = ino]
setDematerialized(e, hash) == [e EXCEPT !.hash = hash]

\* Dir::isMaterialized
DirIsMaterialized(dir) == dir.treeHash = None

\* TreeInode::buildDirFromTree
buildDirFromTree(h) ==
  IF h = None THEN [entries |-> <<>>, treeHash |-> None]
  ELSE [entries |-> [n \in DOMAIN TreeEntries(h) |->
                       EntryFromHash(modeFromTreeEntryType(TreeEntries(h)[n].type),
                                     TreeEntries(h)[n].hash)],
        treeHash |-> h]

\* What Overlay::saveOverlayDir serializes of a Dir: the entries without
\* their in-memory inode pointers, and the treeHash.
DirData(dir) ==
  [kind |-> "dir",
   entries |-> [n \in DOMAIN dir.entries |->
                  [mode |-> dir.entries[n].mode, hash |-> dir.entries[n].hash,
                   ino |-> dir.entries[n].ino]],
   treeHash |-> dir.treeHash]
FileData == [kind |-> "file", entries |-> <<>>, treeHash |-> None]

Remove(f, k) == [x \in DOMAIN f \ {k} |-> f[x]]

(***************************************************************************)
(* State.                                                                  *)
(***************************************************************************)
VARIABLES
  dirs,        \* inode number -> Dir (contents_) of each TreeInode in memory
  loc,         \* inode number -> location_ {parent, name, unlinked} of each inode in memory
  overlay,     \* inode number -> data persisted in the overlay
  nextIno,     \* the inode map's next inode number
  journal,     \* the journal: a sequence of deltas
  renameLock,  \* the thread holding the mount-wide rename lock, or NoThread
  clock,       \* inode number -> the thread holding that TreeInode's contents_ lock
  loads,       \* inode map: inode number -> promises waiting for its load
  futs,        \* load futures not yet completed (ObjectStore::getTree in flight)
  dotEden,     \* EdenMount::getDotEdenInodeNumber(), 0 on a mount without the reserved directory
  fuseRefs,    \* inode number -> the inode's FUSE reference count, where it is not zero
  requests,    \* request id -> its RequestData
  channel,     \* FuseChannel: the replies written, in order
  th           \* thread -> its operation, position and locals

vars ==
  <<dirs, loc, overlay, nextIno, journal, renameLock, clock, loads, futs, dotEden, fuseRefs,
    requests, channel, th>>

NoThread == "nobody"
Threads == {"t1", "t2"}

\* A thread between operations.  snapshot is the commit the mount has
\* checked out (EdenMount's parent commit), kept by the thread that runs
\* the checkouts.
IdleThread ==
  [op |-> "idle", pc |-> "idle", self |-> 0, name |-> NoName, kind |-> "",
   destParent |-> 0, destName |-> NoName, res |-> "",
   gDir |-> 0, gName |-> NoName, gRet |-> "", gRes |-> "", gIno |-> 0,
   gFut |-> "none", promises |-> {}, got |-> <<>>, waitOn |-> {},
   lcDir |-> 0, lcName |-> NoName, thrown |-> FALSE,
   matSelf |-> 0, matRet |-> "", haveRL |-> FALSE,
   chCur |-> 0, chName |-> NoName, chIno |-> 0, chRet |-> "",
   trSelf |-> 0, trName |-> NoName, trChild |-> 0, trRet |-> "", trRes |-> "",
   child |-> 0, deleted |-> 0, attempt |-> 0,
   needSrc |-> FALSE, needDest |-> FALSE, stage |-> 0, destChild |-> 0,
   ctx |-> [dryRun |-> FALSE, force |-> FALSE, conflicts |-> {}, errors |-> {}],
   path |-> <<>>, co |-> <<>>, snapshot |-> "R1", done |-> 0,
   dctx |-> [listIgnored |-> FALSE, cb |-> {}], df |-> <<>>,
   reply |-> [sent |-> FALSE, nodeid |-> 0, attr_valid |-> "", entry_valid |-> ""],
   unl |-> <<>>, potentialUnload |-> {}, toUnload |-> {}]

\* The inodes in memory, and those that are TreeInodes.
Loaded == DOMAIN loc
LoadedTrees == DOMAIN dirs
Present(d, n) == n \in DOMAIN dirs[d].entries
Free(d) == d \notin DOMAIN clock

\* InodeBase::getLocationInfo
getLocationInfo(i) == loc[i]
isUnlinked(i) == loc[i].unlinked

SetEntry(ds, d, n, e) == [ds EXCEPT ![d].entries = (n :> e) @@ @]
EraseEntryKeepsEntry(ds, d, n) == ds
EraseEntry(ds, d, n) == [ds EXCEPT ![d].entries = Remove(@, n)]

\* Overlay::saveOverlayDir, createOverlayFile, removeOverlayData
saveOverlayDir(ov, i, dir) == (i :> DirData(dir)) @@ ov
createOverlayFile(ov, i) == (i :> FileData) @@ ov
removeOverlayData(ov, i) == Remove(ov, i)

\* Overlay::loadOverlayDir: the Dir of a persisted listing.
loadOverlayDir(data) ==
  [entries |-> [n \in DOMAIN data.entries |->
                  [mode |-> data.entries[n].mode, hash |-> data.entries[n].hash,
                   ino |-> data.entries[n].ino, loaded |-> FALSE]],
   treeHash |-> data.treeHash]

\* The inode pointers a thread's locals hold (InodePtr, TreeInodePtr,
\* unique_ptr<InodeBase>, the CheckoutActions of its checkout frames).
RECURSIVE FramePtrs(_)
FramePtrs(co) ==
  IF co = <<>> THEN {}
  ELSE {co[1].dir} \cup {co[1].actions[k].ino : k \in 1..Len(co[1].actions)}
       \cup FramePtrs(Tail(co))
\* The inode pointers of a thread's diff frames and their deferred entries.
RECURSIVE DiffPtrs(_)
DiffPtrs(df) ==
  IF df = <<>> THEN {}
  ELSE {df[1].dir, df[1].gi}
       \cup {df[1].deferred[k].ino : k \in 1..Len(df[1].deferred)}
       \cup DiffPtrs(Tail(df))
\* The TreeInodePtrs of the treeChildren vectors of a thread's nested
\* unloadChildren calls.
UnloadPtrs(unl) == UNION {{unl[k][j] : j \in 1..Len(unl[k])} : k \in 1..Len(unl)}
HeldPtrs(t) ==
  ({th[t].self, th[t].destParent, th[t].gDir, th[t].gIno, th[t].matSelf, th[t].chCur,
    th[t].trSelf, th[t].trChild, th[t].child, th[t].deleted, th[t].destChild}
   \cup FramePtrs(th[t].co) \cup DiffPtrs(th[t].df)
   \cup UnloadPtrs(th[t].unl) \cup th[t].potentialUnload) \ {0}
FutPtrs == {futs[k].parent : k \in 1..Len(futs)}
AllHeldPtrs == UNION {HeldPtrs(t) : t \in Threads} \cup FutPtrs

\* Complete the promises of the threads ws for inode i with value v.
Deliver(thr, ws, i, v) ==
  [t \in Threads |-> IF t \in ws THEN [thr[t] EXCEPT !.got = (i :> v) @@ @] ELSE thr[t]]

\* InodeMap::inodeLoadComplete / inodeLoadFailed: the promises registered for i.
Waiters(i) == IF i \in DOMAIN loads THEN loads[i] ELSE {}

\* Operations a thread may still start (MaxOps bounds each thread's run).
MaxOps == 2

Upd(t, r) == [th EXCEPT ![t] = r]
\* The thread's record when its operation ends with result r.
Finish(t, r) ==
  [IdleThread EXCEPT !.res = r, !.done = th[t].done + 1, !.got = th[t].got,
                     !.snapshot = th[t].snapshot]
CanStart(t) == th[t].pc = "idle" /\ th[t].done < MaxOps

(***************************************************************************)
(* Loading a child inode.                                                  *)
(***************************************************************************)
\* TreeInode::startLoadingInode: how the returned future can stand on
\* return.  A file is built at once; an unmaterialized directory needs
\* ObjectStore::getTree, which may be ready, pending or failed; a
\* materialized directory is read from the overlay, at once.
startLoadingInode(e, i) ==
  IF ~isDirectory(e) THEN {"value"}
  ELSE IF ~isMaterialized(e) THEN {"value", "pending", "error"}
  ELSE IF i \in DOMAIN overlay /\ overlay[i].kind = "dir" THEN {"value"}
  ELSE {"error"}

\* The Dir of the TreeInode that a load of entry e, number i, builds.
LoadedDir(e, i) ==
  IF ~isDirectory(e) THEN [entries |-> <<>>, treeHash |-> None]
  ELSE IF ~isMaterialized(e) THEN buildDirFromTree(e.hash)
  ELSE IF i \in DOMAIN overlay THEN loadOverlayDir(overlay[i])
  ELSE [entries |-> <<>>, treeHash |-> None]

\* The future of one started load: st is "value" or "error" when it is
\* ready, "pending" otherwise; reg is set once registerInodeLoadComplete
\* attached the callbacks.
LoadFuture(t, d, n, e, i, st) ==
  [ino |-> i, parent |-> d, name |-> n, owner |-> t, reg |-> FALSE, st |-> st,
   isDir |-> isDirectory(e), obj |-> LoadedDir(e, i)]

\* entry.setInode(): dirs and loc once the inode built for entry n of d is
\* in memory.
WithInode(ds, d, n, i, isDir, obj) ==
  LET ds1 == SetEntry(ds, d, n, [ds[d].entries[n] EXCEPT !.loaded = TRUE])
  IN IF isDir THEN (i :> obj) @@ ds1 ELSE ds1
WithLoc(lc, d, n, i) == (i :> [parent |-> d, name |-> n, unlinked |-> FALSE]) @@ lc

\* InodeMap::shouldLoadChild: registers the promise; TRUE iff no load of i
\* is in progress.
shouldLoadChild(ls, i) == i \notin DOMAIN ls
AddWaiter(ls, i, t) ==
  IF i \in DOMAIN ls THEN [ls EXCEPT ![i] = @ \cup {t}] ELSE (i :> {t}) @@ ls

\* A registration that attaches no callback.
registerNothing(fs, t) == fs
\* TreeInode::registerInodeLoadComplete for the loads thread t started.
registerInodeLoadComplete(fs, t) ==
  [k \in DOMAIN fs |-> IF fs[k].owner = t THEN [fs[k] EXCEPT !.reg = TRUE] ELSE fs[k]]

\* A test that singles out the reserved name in the root directory.
dotEdenAtRoot(d, n) == n = kDotEdenName /\ d = kRootNodeId
\* getOrLoadChild's test on a missing name: the reserved name in a
\* directory that is not the root.
dotEdenBelowRoot(d, n) == n = kDotEdenName /\ d # kRootNodeId

\* TreeInode::getOrLoadChild, the part under the contents_ lock.
GetOrLoadChild(t) ==
  LET r == th[t]
      d == r.gDir
      n == r.gName
  IN
  /\ r.pc = "golc"
  /\ Free(d)
  /\ UNCHANGED <<overlay, journal, renameLock, dotEden, fuseRefs, requests, channel>>
  /\ IF ~Present(d, n)
     THEN IF dotEdenBelowRoot(d, n) /\ dotEden # 0
          THEN \* InodeMap::lookupInode(dotEden), called with contents_ locked
               /\ UNCHANGED <<dirs, loc, nextIno, futs>>
               /\ IF dotEden \in Loaded
                  THEN /\ th' = Upd(t, [r EXCEPT !.pc = r.gRet, !.gRes = "ok",
                                                 !.gIno = dotEden])
                       /\ UNCHANGED <<loads, clock>>
                  ELSE /\ loads' = AddWaiter(loads, dotEden, t)
                       /\ IF dotEden \in DOMAIN loads
                          THEN /\ th' = Upd(t, [r EXCEPT !.pc = "golc_wait",
                                                         !.gIno = dotEden])
                               /\ clock' = clock
                          ELSE /\ th' = Upd(t, [r EXCEPT !.pc = "golc_dot",
                                                         !.gIno = dotEden,
                                                         !.lcDir = kRootNodeId,
                                                         !.lcName = kDotEdenName])
                               /\ clock' = (d :> t) @@ clock
          ELSE /\ th' = Upd(t, [r EXCEPT !.pc = r.gRet, !.gRes = "ENOENT", !.gIno = 0])
               /\ UNCHANGED <<dirs, loc, nextIno, loads, futs, clock>>
     ELSE LET e == dirs[d].entries[n] IN
       /\ clock' = clock
       /\ IF e.loaded
          THEN /\ th' = Upd(t, [r EXCEPT !.pc = r.gRet, !.gRes = "ok", !.gIno = e.ino])
               /\ UNCHANGED <<dirs, loc, nextIno, loads, futs>>
          ELSE
            /\ hasInodeNumber(e) \/ nextIno <= MaxIno
            /\ LET childNumber == IF hasInodeNumber(e) THEN e.ino ELSE nextIno
                   e1 == [e EXCEPT !.ino = childNumber]
                   ds1 == SetEntry(dirs, d, n, e1)
               IN
               /\ nextIno' = IF hasInodeNumber(e) THEN nextIno ELSE nextIno + 1
               /\ IF shouldLoadChild(loads, childNumber)
                  THEN \E st \in startLoadingInode(e1, childNumber) :
                    IF st = "value"
                    THEN /\ dirs' = WithInode(ds1, d, n, childNumber, isDirectory(e1),
                                              LoadedDir(e1, childNumber))
                         /\ loc' = WithLoc(loc, d, n, childNumber)
                         /\ loads' = loads
                         /\ futs' = futs
                         /\ th' = Upd(t, [r EXCEPT !.pc = "golc_post", !.gFut = st,
                                          !.gIno = childNumber, !.promises = {t}])
                    ELSE /\ dirs' = ds1
                         /\ loc' = loc
                         /\ loads' = AddWaiter(loads, childNumber, t)
                         /\ futs' = Append(futs, LoadFuture(t, d, n, e1, childNumber, st))
                         /\ th' = Upd(t, [r EXCEPT !.pc = "golc_post", !.gFut = st,
                                          !.gIno = childNumber])
                  ELSE /\ dirs' = ds1
                       /\ loc' = loc
                       /\ loads' = AddWaiter(loads, childNumber, t)
                       /\ futs' = futs
                       /\ th' = Upd(t, [r EXCEPT !.pc = "golc_wait", !.gIno = childNumber])

\* getOrLoadChild after the lock is released: fulfil the promises of a load
\* that finished at once, or register the completion callbacks.
GetOrLoadChildPost(t) ==
  LET r == th[t] IN
  /\ r.pc = "golc_post"
  /\ UNCHANGED <<dirs, loc, overlay, nextIno, journal, renameLock, loads, dotEden, fuseRefs, requests, channel>>
  /\ IF r.gFut = "value"
     THEN /\ th' = Deliver(Upd(t, [r EXCEPT !.pc = "golc_wait", !.promises = {}]),
                           r.promises, r.gIno, "ok")
          /\ futs' = futs
          /\ clock' = clock
     ELSE /\ th' = Upd(t, [r EXCEPT !.pc = "golc_wait"])
          /\ futs' = registerInodeLoadComplete(futs, t)
          \* a load started by lookupInode inside getOrLoadChild: the lock
          \* of the directory is released on return, after the registration
          /\ clock' = IF r.gFut = "lci"
                      THEN [x \in {y \in DOMAIN clock : clock[y] # t} |-> clock[x]]
                      ELSE clock

\* The returned future completes: the caller's continuation runs.
GetOrLoadChildDone(t) ==
  LET r == th[t] IN
  /\ r.pc = "golc_wait"
  /\ r.gIno \in DOMAIN r.got
  /\ th' = Upd(t, [r EXCEPT !.pc = r.gRet, !.got = Remove(@, r.gIno),
                            !.gRes = IF r.got[r.gIno] = "ok" THEN "ok" ELSE "EIO"])
  /\ UNCHANGED <<dirs, loc, overlay, nextIno, journal, renameLock, clock, loads, futs, dotEden, fuseRefs, requests, channel>>

RemoveAt(s, k) == SubSeq(s, 1, k - 1) \o SubSeq(s, k + 1, Len(s))

\* InodeMap::inodeLoadFailed: the promises of i fail.
inodeLoadFailed(i) ==
  /\ th' = Deliver(th, Waiters(i), i, "err")
  /\ loads' = Remove(loads, i)

\* The .then() callback of a registered load: TreeInode::inodeLoadComplete.
InodeLoadComplete(k) ==
  LET f == futs[k] IN
  /\ f.reg /\ f.st \in {"pending", "value"}
  /\ Free(f.parent)
  /\ futs' = RemoveAt(futs, k)
  /\ UNCHANGED <<overlay, nextIno, journal, renameLock, clock, dotEden, fuseRefs, requests, channel>>
  /\ IF ~Present(f.parent, f.name)
     THEN \* the throw is caught by onError
          /\ inodeLoadFailed(f.ino)
          /\ UNCHANGED <<dirs, loc>>
     ELSE /\ dirs' = WithInode(dirs, f.parent, f.name, f.ino, f.isDir, f.obj)
          /\ loc' = WithLoc(loc, f.parent, f.name, f.ino)
          /\ th' = Deliver(th, Waiters(f.ino), f.ino, "ok")
          /\ loads' = Remove(loads, f.ino)

\* The .onError() callback of a registered load.
InodeLoadError(k) ==
  LET f == futs[k] IN
  /\ f.reg /\ f.st \in {"pending", "error"}
  /\ futs' = RemoveAt(futs, k)
  /\ inodeLoadFailed(f.ino)
  /\ UNCHANGED <<dirs, loc, overlay, nextIno, journal, renameLock, clock, dotEden, fuseRefs, requests, channel>>

\* InodeMap::lookupInode(i) for an inode that is not loaded: register the
\* promise and, unless a load is in progress, have the parent load it.
LookupInode(t) ==
  \E d \in LoadedTrees : \E n \in DOMAIN dirs[d].entries :
    LET e == dirs[d].entries[n] IN
    /\ CanStart(t)
    /\ hasInodeNumber(e) /\ ~e.loaded
    /\ loads' = AddWaiter(loads, e.ino, t)
    /\ th' = Upd(t, [th[t] EXCEPT !.op = "lookupInode", !.gRet = "op_done", !.gIno = e.ino,
                       !.lcDir = d, !.lcName = n,
                       !.pc = IF e.ino \in DOMAIN loads THEN "golc_wait" ELSE "golc_dot"])
    /\ UNCHANGED <<dirs, loc, overlay, nextIno, journal, renameLock, clock, futs, dotEden, fuseRefs, requests, channel>>

\* The state of the future a load leaves to its registered callbacks.
FutureState(e, i) ==
  IF "pending" \in startLoadingInode(e, i) THEN "pending"
  ELSE CHOOSE st \in startLoadingInode(e, i) : TRUE

\* TreeInode::loadChildInode(name, number), called by the inode map; the
\* caller may hold the contents_ lock of the directory it came from.
LoadChildInode(t) ==
  LET r == th[t]
      d == r.lcDir
      n == r.lcName
  IN
  /\ r.pc = "golc_dot"
  /\ Free(d)
  /\ UNCHANGED <<dirs, loc, overlay, nextIno, journal, renameLock, dotEden, fuseRefs, requests, channel>>
  /\ IF ~Present(d, n) \/ dirs[d].entries[n].loaded
     THEN /\ th' = Deliver(Upd(t, [r EXCEPT !.pc = "golc_wait"]), Waiters(r.gIno), r.gIno, "err")
          /\ loads' = Remove(loads, r.gIno)
          /\ futs' = futs
          /\ clock' = [x \in {y \in DOMAIN clock : clock[y] # t} |-> clock[x]]
     ELSE LET e == dirs[d].entries[n] IN
          /\ futs' = Append(futs, LoadFuture(t, d, n, e, r.gIno, FutureState(e, r.gIno)))
          /\ th' = Upd(t, [r EXCEPT !.pc = "golc_post", !.gFut = "lci"])
          /\ loads' = loads
          /\ clock' = clock

\* loadChildLocked starting a load whatever the inode map answers.
loadChildLockedAlways(w, t, d, n) ==
  LET e == w.dirs[d].entries[n]
      childNumber == IF hasInodeNumber(e) THEN e.ino ELSE w.nextIno
      e1 == [e EXCEPT !.ino = childNumber]
  IN [dirs |-> SetEntry(w.dirs, d, n, e1),
      nextIno |-> IF hasInodeNumber(e) THEN w.nextIno ELSE w.nextIno + 1,
      loads |-> AddWaiter(w.loads, childNumber, t),
      futs |-> Append(w.futs, LoadFuture(t, d, n, e1, childNumber,
                                         FutureState(e1, childNumber)))]
\* TreeInode::loadChildLocked on the world w = [dirs, nextIno, loads, futs].
loadChildLocked(w, t, d, n) ==
  LET e == w.dirs[d].entries[n]
      childNumber == IF hasInodeNumber(e) THEN e.ino ELSE w.nextIno
      e1 == [e EXCEPT !.ino = childNumber]
      startLoad == shouldLoadChild(w.loads, childNumber)
  IN [dirs |-> SetEntry(w.dirs, d, n, e1),
      nextIno |-> IF hasInodeNumber(e) THEN w.nextIno ELSE w.nextIno + 1,
      loads |-> AddWaiter(w.loads, childNumber, t),
      futs |-> IF startLoad
               THEN Append(w.futs, LoadFuture(t, d, n, e1, childNumber,
                                              FutureState(e1, childNumber)))
               ELSE w.futs]

World == [dirs |-> dirs, nextIno |-> nextIno, loads |-> loads, futs |-> futs]

RECURSIVE LoadAll(_, _, _, _)
\* loadChildLocked for each name of the sequence ns, in order.
LoadAll(w, t, d, ns) ==
  IF ns = <<>> THEN w ELSE LoadAll(loadChildLocked(w, t, d, ns[1]), t, d, Tail(ns))

\* TreeInode::loadMaterializedChildren(Recurse::SHALLOW), the locked part.
\* An exception thrown before the lock is released (thrown) unwinds
\* through the pending IncompleteInodeLoads.
LoadMaterializedChildren(t) ==
  \E d \in LoadedTrees \ {dotEden} : \E thrown \in BOOLEAN :
    LET c == dirs[d]
        todo == {n \in DOMAIN c.entries :
                   isMaterialized(c.entries[n]) /\ ~c.entries[n].loaded}
        w == LoadAll(World, t, d, SortedNames(todo))
    IN
    /\ CanStart(t)
    /\ Free(d)
    /\ ~isUnlinked(d)
    /\ IF ~DirIsMaterialized(c)
       THEN /\ th' = Upd(t, Finish(t, "ok"))
            /\ UNCHANGED <<dirs, nextIno, loads, futs>>
       ELSE /\ dirs' = w.dirs
            /\ nextIno' = w.nextIno
            /\ loads' = w.loads
            /\ futs' = w.futs
            /\ th' = Upd(t, [th[t] EXCEPT !.op = "loadMaterializedChildren",
                               !.self = d, !.pc = "lmc_finish", !.thrown = thrown,
                               !.waitOn = {c.entries[n].ino : n \in todo}])
    /\ UNCHANGED <<loc, overlay, journal, renameLock, clock, dotEden, fuseRefs, requests, channel>>

\* IncompleteInodeLoad::finish() for each pending load, or, on the
\* exception path, ~IncompleteInodeLoad() doing the same.
FinishLoads(t) ==
  /\ th[t].pc = "lmc_finish"
  /\ futs' = registerInodeLoadComplete(futs, t)
  /\ th' = Upd(t, [th[t] EXCEPT !.pc = "lmc_wait"])
  /\ UNCHANGED <<dirs, loc, overlay, nextIno, journal, renameLock, clock, loads, dotEden, fuseRefs, requests, channel>>

\* collectAll(): every child future has completed.
LoadsCollected(t) ==
  LET r == th[t] IN
  /\ r.pc = "lmc_wait"
  /\ r.waitOn \subseteq DOMAIN r.got
  /\ th' = Upd(t, [Finish(t, IF r.thrown THEN "EIO" ELSE "ok") EXCEPT
                     !.got = [i \in DOMAIN r.got \ r.waitOn |-> r.got[i]]])
  /\ UNCHANGED <<dirs, loc, overlay, nextIno, journal, renameLock, clock, loads, futs, dotEden, fuseRefs, requests, channel>>

\* EdenDispatcher::lookup / a caller of getOrLoadChild(name) on directory d.
Lookup(t, d, n) ==
  /\ CanStart(t)
  /\ d \in LoadedTrees
  /\ th' = Upd(t, [th[t] EXCEPT !.op = "lookup", !.pc = "golc", !.self = d,
                     !.gDir = d, !.gName = n, !.gRet = "op_done"])
  /\ UNCHANGED <<dirs, loc, overlay, nextIno, journal, renameLock, clock, loads, futs, dotEden, fuseRefs, requests, channel>>

\* The operation's future completes with the result of its last step.
OpDone(t) ==
  /\ th[t].pc = "op_done"
  /\ th' = Upd(t, Finish(t, th[t].gRes))
  /\ UNCHANGED <<dirs, loc, overlay, nextIno, journal, renameLock, clock, loads, futs, dotEden, fuseRefs, requests, channel>>

\* The steps shared by every operation that loads a child.
LoadSteps(t) ==
  \/ GetOrLoadChild(t)
  \/ GetOrLoadChildPost(t)
  \/ GetOrLoadChildDone(t)
  \/ OpDone(t)
LoadCallbacks ==
  \/ \E k \in DOMAIN futs : InodeLoadComplete(k)
  \/ \E k \in DOMAIN futs : InodeLoadError(k)

(***************************************************************************)
(* Materialization.                                                        *)
(***************************************************************************)
\* folly::none for an Optional<RelativePath>.
NoPath == <<"/">>

RECURSIVE getPath(_)
\* InodeBase::getPath: the names from the root, or NoPath when the inode or
\* one of its ancestors is unlinked.
getPath(i) ==
  IF i = kRootNodeId THEN <<>>
  ELSE IF loc[i].unlinked THEN NoPath
  ELSE LET pp == getPath(loc[i].parent)
       IN IF pp = NoPath THEN NoPath ELSE Append(pp, loc[i].name)

\* The thread t without the contents_ locks it holds.
Unlocked(t) == [x \in {y \in DOMAIN clock : clock[y] # t} |-> clock[x]]

\* Leaving materialize(): a rename lock taken inside is released.
MatExit(t, r) ==
  /\ th' = Upd(t, [r EXCEPT !.pc = r.matRet, !.matSelf = 0, !.chCur = 0])
  /\ renameLock' = IF r.haveRL THEN renameLock ELSE NoThread

\* The end of a childMaterialized chain started by materialize() or by
\* saveOverlayPostCheckout().
ChainEnd(t, r) ==
  IF r.chRet = "mat_exit" THEN MatExit(t, r)
  ELSE /\ th' = Upd(t, [r EXCEPT !.pc = r.chRet, !.chCur = 0])
       /\ renameLock' = renameLock

\* A materialize that clears treeHash and tells the parent without writing
\* the directory's own listing.
MaterializeUnsaved(t, r) ==
  LET d == r.matSelf IN
  IF DirIsMaterialized(dirs[d])
  THEN /\ MatExit(t, r)
       /\ UNCHANGED <<dirs, overlay>>
  ELSE /\ dirs' = [dirs EXCEPT ![d].treeHash = None]
       /\ overlay' = overlay
       /\ IF loc[d].parent # 0 /\ ~loc[d].unlinked
          THEN /\ th' = Upd(t, [r EXCEPT !.pc = "ch", !.chCur = loc[d].parent,
                                  !.chName = loc[d].name, !.chIno = d, !.chRet = "mat_exit"])
               /\ renameLock' = renameLock
          ELSE MatExit(t, r)
\* TreeInode::materialize, the locked part: mark materialized and write the
\* listing to the overlay before the parent hears of it.
MaterializeLocked(t, r) ==
  LET d == r.matSelf IN
  IF DirIsMaterialized(dirs[d])
  THEN /\ MatExit(t, r)
       /\ UNCHANGED <<dirs, overlay>>
  ELSE LET dir1 == [dirs[d] EXCEPT !.treeHash = None] IN
       /\ dirs' = [dirs EXCEPT ![d] = dir1]
       /\ overlay' = saveOverlayDir(overlay, d, dir1)
       /\ IF loc[d].parent # 0 /\ ~loc[d].unlinked
          THEN /\ th' = Upd(t, [r EXCEPT !.pc = "ch", !.chCur = loc[d].parent,
                                  !.chName = loc[d].name, !.chIno = d, !.chRet = "mat_exit"])
               /\ renameLock' = renameLock
          ELSE MatExit(t, r)

\* TreeInode::materialize(renameLock): the unlocked fast check, or with the
\* rename lock passed in, the locked part at once.
Materialize(t) ==
  LET r == th[t]
      d == r.matSelf
  IN
  /\ r.pc = "mat"
  /\ Free(d)
  /\ UNCHANGED <<loc, nextIno, journal, clock, loads, futs, dotEden, fuseRefs, requests, channel>>
  /\ IF r.haveRL THEN MaterializeLocked(t, r)
     ELSE /\ UNCHANGED <<dirs, overlay, renameLock>>
          /\ IF DirIsMaterialized(dirs[d])
             THEN th' = Upd(t, [r EXCEPT !.pc = r.matRet, !.matSelf = 0])
             ELSE th' = Upd(t, [r EXCEPT !.pc = "mat_acq"])

\* EdenMount::acquireRenameLock inside materialize().
MaterializeAcquire(t) ==
  /\ th[t].pc = "mat_acq"
  /\ renameLock = NoThread
  /\ renameLock' = t
  /\ th' = Upd(t, [th[t] EXCEPT !.pc = "mat_w"])
  /\ UNCHANGED <<dirs, loc, overlay, nextIno, journal, clock, loads, futs, dotEden, fuseRefs, requests, channel>>

\* materialize() with its own rename lock: recheck and materialize.
MaterializeWrite(t) ==
  /\ th[t].pc = "mat_w"
  /\ Free(th[t].matSelf)
  /\ MaterializeLocked(t, th[t])
  /\ UNCHANGED <<loc, nextIno, journal, clock, loads, futs, dotEden, fuseRefs, requests, channel>>

\* TreeInode::childMaterialized(renameLock, childName, childNodeId) on
\* directory chCur, then on to its parent.
ChildMaterialized(t) ==
  LET r == th[t]
      d == r.chCur
      n == r.chName
  IN
  /\ r.pc = "ch"
  /\ Free(d)
  /\ UNCHANGED <<loc, nextIno, journal, clock, loads, futs, dotEden, fuseRefs, requests, channel>>
  /\ IF ~Present(d, n)
     THEN \* EDEN_BUG: the exception unwinds the operation
          /\ th' = Upd(t, Finish(t, "BUG"))
          /\ renameLock' = NoThread
          /\ UNCHANGED <<dirs, overlay>>
     ELSE IF DirIsMaterialized(dirs[d]) /\ isMaterialized(dirs[d].entries[n])
     THEN /\ ChainEnd(t, r)
          /\ UNCHANGED <<dirs, overlay>>
     ELSE LET dir1 == [dirs[d] EXCEPT !.entries[n] = setMaterialized(@, r.chIno),
                                      !.treeHash = None]
          IN
          /\ dirs' = [dirs EXCEPT ![d] = dir1]
          /\ overlay' = saveOverlayDir(overlay, d, dir1)
          /\ IF loc[d].parent # 0 /\ ~loc[d].unlinked
             THEN /\ th' = Upd(t, [r EXCEPT !.chCur = loc[d].parent,
                                     !.chName = loc[d].name, !.chIno = d])
                  /\ renameLock' = renameLock
             ELSE ChainEnd(t, r)

\* materialize() under a rename lock passed in, and the parents' chain.
MaterializeSteps(t) ==
  \/ Materialize(t)
  \/ ChildMaterialized(t)
\* materialize() taking the rename lock itself.
MaterializeOwnLock(t) ==
  \/ MaterializeAcquire(t)
  \/ MaterializeWrite(t)

(***************************************************************************)
(* create, symlink, mknod, mkdir.                                          *)
(***************************************************************************)
\* The four operations differ in the child they build.
CreateKinds == {"create", "symlink", "mknod", "mkdir"}
modeOfKind(kind) == IF kind = "mkdir" THEN "dir" ELSE "reg"

\* TreeInode::create / symlink / mknod / mkdir: materialize() first.
\* mknod of anything but a socket fails before that.
Create(t, d, n, kind, isSock) ==
  /\ CanStart(t)
  /\ d \in LoadedTrees
  /\ IF kind = "mknod" /\ ~isSock
     THEN th' = Upd(t, Finish(t, "EPERM"))
     ELSE th' = Upd(t, [th[t] EXCEPT !.op = kind, !.kind = kind, !.self = d, !.name = n,
                          !.pc = "mat", !.matSelf = d, !.matRet = "cr_lock",
                          !.haveRL = FALSE])
  /\ UNCHANGED <<dirs, loc, overlay, nextIno, journal, renameLock, clock, loads, futs, dotEden, fuseRefs, requests, channel>>

\* A create that inserts the entry without writing the child's data.
NoChildData(ov, kind, i) == ov
\* The overlay data written for the new child before the entry exists.
NewChildData(ov, kind, i) ==
  IF kind = "mkdir" THEN saveOverlayDir(ov, i, [entries |-> <<>>, treeHash |-> None])
  ELSE createOverlayFile(ov, i)

\* A create that allocates the inode number and writes the child's data
\* before it looks for the name.
CreateLockedEager(t) ==
  LET r == th[t]
      d == r.self
      n == r.name
  IN
  /\ r.pc = "cr_lock"
  /\ Free(d)
  /\ UNCHANGED <<journal, renameLock, loads, futs, dotEden, fuseRefs, requests, channel>>
  /\ IF getPath(d) = NoPath
     THEN /\ th' = Upd(t, Finish(t, "ENOENT"))
          /\ UNCHANGED <<dirs, loc, overlay, nextIno, clock>>
     ELSE /\ nextIno <= MaxIno
          /\ nextIno' = nextIno + 1
          /\ overlay' = NewChildData(overlay, r.kind, nextIno)
          /\ IF Present(d, n)
             THEN /\ th' = Upd(t, Finish(t, IF r.kind = "create" THEN "BUG" ELSE "EEXIST"))
                  /\ UNCHANGED <<dirs, loc, clock>>
             ELSE /\ dirs' = LET ds1 == SetEntry(dirs, d, n,
                                          [EntryFromIno(modeOfKind(r.kind), nextIno)
                                             EXCEPT !.loaded = TRUE])
                             IN IF r.kind = "mkdir"
                                THEN (nextIno :> [entries |-> <<>>, treeHash |-> None]) @@ ds1
                                ELSE ds1
                  /\ loc' = WithLoc(loc, d, n, nextIno)
                  /\ clock' = (d :> t) @@ clock
                  /\ th' = Upd(t, [r EXCEPT !.pc = "cr_save", !.child = nextIno,
                                          !.path = Append(getPath(d), n)])
\* Under the contents_ lock: check, allocate the inode number, write the
\* child's overlay data, insert the entry and build the inode.
CreateLocked(t) ==
  LET r == th[t]
      d == r.self
      n == r.name
  IN
  /\ r.pc = "cr_lock"
  /\ Free(d)
  /\ UNCHANGED <<journal, renameLock, loads, futs, dotEden, fuseRefs, requests, channel>>
  /\ IF getPath(d) = NoPath
     THEN /\ th' = Upd(t, Finish(t, "ENOENT"))
          /\ UNCHANGED <<dirs, loc, overlay, nextIno, clock>>
     ELSE IF r.kind # "create" /\ Present(d, n)
     THEN /\ th' = Upd(t, Finish(t, "EEXIST"))
          /\ UNCHANGED <<dirs, loc, overlay, nextIno, clock>>
     ELSE /\ nextIno <= MaxIno
          /\ nextIno' = nextIno + 1
          /\ overlay' = NewChildData(overlay, r.kind, nextIno)
          /\ IF Present(d, n)
             THEN \* create(): emplace() found the name: EDEN_BUG
                  /\ th' = Upd(t, Finish(t, "BUG"))
                  /\ UNCHANGED <<dirs, loc, clock>>
             ELSE /\ dirs' = LET ds1 == SetEntry(dirs, d, n,
                                          [EntryFromIno(modeOfKind(r.kind), nextIno)
                                             EXCEPT !.loaded = TRUE])
                             IN IF r.kind = "mkdir"
                                THEN (nextIno :> [entries |-> <<>>, treeHash |-> None]) @@ ds1
                                ELSE ds1
                  /\ loc' = WithLoc(loc, d, n, nextIno)
                  /\ clock' = (d :> t) @@ clock
                  /\ th' = Upd(t, [r EXCEPT !.pc = "cr_save", !.child = nextIno,
                                          !.path = Append(getPath(d), n)])

\* Still under the lock: save the directory's listing.
CreateSave(t) ==
  LET r == th[t] IN
  /\ r.pc = "cr_save"
  /\ overlay' = saveOverlayDir(overlay, r.self, dirs[r.self])
  /\ clock' = Unlocked(t)
  /\ th' = Upd(t, [r EXCEPT !.pc = "cr_journal"])
  /\ UNCHANGED <<dirs, loc, nextIno, journal, renameLock, loads, futs, dotEden, fuseRefs, requests, channel>>

JournalDelta(type, path1, path2) == [type |-> type, path1 |-> path1, path2 |-> path2]

\* After the lock: the CREATED journal delta.
CreateJournal(t) ==
  LET r == th[t] IN
  /\ r.pc = "cr_journal"
  /\ journal' = Append(journal, JournalDelta("CREATED", r.path, <<>>))
  /\ th' = Upd(t, IF r.op = "fuse_entry" THEN [r EXCEPT !.pc = "de_attr"]
                  ELSE Finish(t, "ok"))
  /\ UNCHANGED <<dirs, loc, overlay, nextIno, renameLock, clock, loads, futs, dotEden, fuseRefs, requests, channel>>

CreateSteps(t) ==
  \/ CreateLocked(t)
  \/ CreateSave(t)
  \/ CreateJournal(t)

(***************************************************************************)
(* unlink and rmdir.                                                       *)
(***************************************************************************)
\* removeImpl gives up after this many retries.
kMaxRemoveRetries == 3

\* TreeInode::unlink / rmdir: getOrLoadChild(name), then removeImpl.
Remove_(t, d, n, kind) ==
  /\ CanStart(t)
  /\ d \in LoadedTrees
  /\ th' = Upd(t, [th[t] EXCEPT !.op = kind, !.kind = kind, !.self = d, !.name = n,
                     !.attempt = 1, !.pc = "golc", !.gDir = d, !.gName = n,
                     !.gRet = "rm_impl"])
  /\ UNCHANGED <<dirs, loc, overlay, nextIno, journal, renameLock, clock, loads, futs, dotEden, fuseRefs, requests, channel>>

\* The InodeType of a loaded inode.
isTree(i) == i \in DOMAIN dirs
\* InodeType::WRONG_TYPE_ERRNO of the operation kind.
WrongTypeErrno(kind) == IF kind = "unlink" THEN "EISDIR" ELSE "ENOTDIR"
WantsTree(kind) == kind = "rmdir"

\* A checkPreRemove that lets every child be removed.
checkPreRemoveNothing(child) == "ok"
\* TreeInode::checkPreRemove(child) under the child's contents_ lock.
checkPreRemove(child) ==
  IF isTree(child) /\ DOMAIN dirs[child].entries # {} THEN "ENOTEMPTY" ELSE "ok"

\* TreeInode::removeImpl up to the rename lock: the type check and the
\* check that the child can be removed.
RemoveImpl(t) ==
  LET r == th[t] IN
  /\ r.pc = "rm_impl"
  /\ UNCHANGED <<dirs, loc, overlay, nextIno, journal, renameLock, clock, loads, futs, dotEden, fuseRefs, requests, channel>>
  /\ IF r.gRes # "ok"
     THEN th' = Upd(t, Finish(t, r.gRes))
     ELSE IF isTree(r.gIno) # WantsTree(r.kind)
     THEN th' = Upd(t, Finish(t, WrongTypeErrno(r.kind)))
     ELSE /\ isTree(r.gIno) => Free(r.gIno)
          /\ IF checkPreRemove(r.gIno) # "ok"
             THEN th' = Upd(t, Finish(t, checkPreRemove(r.gIno)))
             ELSE th' = Upd(t, [r EXCEPT !.pc = "rm_acq", !.child = r.gIno])

\* removeImpl: acquire the rename lock, compute the path, and enter
\* tryRemoveChild, which materializes this directory first.
RemoveAcquire(t) ==
  LET r == th[t] IN
  /\ r.pc = "rm_acq"
  /\ renameLock = NoThread
  /\ IF getPath(r.self) = NoPath
     THEN /\ th' = Upd(t, Finish(t, "ENOENT"))
          /\ renameLock' = NoThread
     ELSE /\ th' = Upd(t, [r EXCEPT !.pc = "mat", !.matSelf = r.self, !.matRet = "tr_lock",
                             !.haveRL = TRUE, !.path = Append(getPath(r.self), r.name),
                             !.trSelf = r.self, !.trName = r.name, !.trChild = 0,
                             !.trRet = "rm_after"])
          /\ renameLock' = t
  /\ UNCHANGED <<dirs, loc, overlay, nextIno, journal, clock, loads, futs, dotEden, fuseRefs, requests, channel>>

\* InodeBase::markUnlinked
markUnlinked(lc, i) == [lc EXCEPT ![i].unlinked = TRUE]

\* A removal that erases the entry and leaves the child linked.
RemoveEntryStillLinked(t, r, d, n, child) ==
  LET ds1 == EraseEntry(dirs, d, n) IN
  /\ loc' = loc
  /\ dirs' = ds1
  /\ overlay' = saveOverlayDir(overlay, d, ds1[d])
  /\ clock' = Unlocked(t)
  /\ th' = Upd(t, [r EXCEPT !.pc = r.trRet, !.trRes = "ok", !.deleted = child])

\* tryRemoveChild: unlink the child, erase the entry, save the listing.
RemoveEntry(t, r, d, n, child) ==
  LET ds1 == EraseEntry(dirs, d, n) IN
  /\ loc' = markUnlinked(loc, child)
  /\ dirs' = ds1
  /\ overlay' = saveOverlayDir(overlay, d, ds1[d])
  /\ clock' = Unlocked(t)
  /\ th' = Upd(t, [r EXCEPT !.pc = r.trRet, !.trRes = "ok", !.deleted = child])

\* tryRemoveChild returns errno e.
TryRemoveFail(t, r, e) ==
  /\ th' = Upd(t, [r EXCEPT !.pc = r.trRet, !.trRes = e])
  /\ clock' = Unlocked(t)
  /\ UNCHANGED <<dirs, loc, overlay>>

\* TreeInode::tryRemoveChild after materialize(): under the contents_
\* lock, find the entry and check it; a directory child is checked under
\* its own lock, taken with this one held.
TryRemoveLocked(t) ==
  LET r == th[t]
      d == r.trSelf
      n == r.trName
  IN
  /\ r.pc = "tr_lock"
  /\ UNCHANGED <<nextIno, journal, renameLock, loads, futs, dotEden, fuseRefs, requests, channel>>
  /\ IF d = dotEden THEN TryRemoveFail(t, r, "EPERM")
     ELSE
       /\ Free(d)
       /\ IF ~Present(d, n) THEN TryRemoveFail(t, r, "ENOENT")
          ELSE LET e == dirs[d].entries[n] IN
            IF ~e.loaded THEN TryRemoveFail(t, r, "EBADF")
            ELSE IF r.trChild # 0 /\ e.ino # r.trChild THEN TryRemoveFail(t, r, "EBADF")
            ELSE IF r.trChild = 0 /\ isTree(e.ino) # WantsTree(r.kind)
            THEN TryRemoveFail(t, r, WrongTypeErrno(r.kind))
            ELSE IF isTree(e.ino)
            THEN /\ clock' = (d :> t) @@ clock
                 /\ th' = Upd(t, [r EXCEPT !.pc = "tr_check", !.trChild = e.ino])
                 /\ UNCHANGED <<dirs, loc, overlay>>
            ELSE RemoveEntry(t, r, d, n, e.ino)

\* tryRemoveChild: checkPreRemove on a directory child, then the removal.
TryRemoveCheck(t) ==
  LET r == th[t] IN
  /\ r.pc = "tr_check"
  /\ Free(r.trChild)
  /\ UNCHANGED <<nextIno, journal, renameLock, loads, futs, dotEden, fuseRefs, requests, channel>>
  /\ IF checkPreRemove(r.trChild) # "ok"
     THEN TryRemoveFail(t, r, checkPreRemove(r.trChild))
     ELSE RemoveEntry(t, r, r.trSelf, r.trName, r.trChild)

\* A removeImpl that reloads and tries again on every EBADF.
RemoveAfterUnbounded(t) ==
  LET r == th[t] IN
  /\ r.pc = "rm_after"
  /\ renameLock' = NoThread
  /\ UNCHANGED <<dirs, loc, overlay, nextIno, clock, loads, futs, dotEden, fuseRefs, requests, channel>>
  /\ IF r.trRes = "ok"
     THEN /\ journal' = Append(journal, JournalDelta("REMOVED", r.path, <<>>))
          /\ th' = Upd(t, Finish(t, "ok"))
     ELSE /\ journal' = journal
          /\ IF r.trRes # "EBADF" THEN th' = Upd(t, Finish(t, r.trRes))
             ELSE th' = Upd(t, [r EXCEPT !.pc = "golc", !.gDir = r.self, !.gName = r.name,
                                  !.gRet = "rm_impl", !.attempt = r.attempt + 1,
                                  !.child = 0, !.trSelf = 0])
\* removeImpl after tryRemoveChild: the REMOVED journal delta, or an
\* error, or a reload and another attempt on EBADF.
RemoveAfter(t) ==
  LET r == th[t] IN
  /\ r.pc = "rm_after"
  /\ renameLock' = NoThread
  /\ UNCHANGED <<dirs, loc, overlay, nextIno, clock, loads, futs, dotEden, fuseRefs, requests, channel>>
  /\ IF r.trRes = "ok"
     THEN /\ journal' = Append(journal, JournalDelta("REMOVED", r.path, <<>>))
          /\ th' = Upd(t, Finish(t, "ok"))
     ELSE /\ journal' = journal
          /\ IF r.trRes # "EBADF" THEN th' = Upd(t, Finish(t, r.trRes))
             ELSE IF r.attempt > kMaxRemoveRetries THEN th' = Upd(t, Finish(t, "EIO"))
             ELSE th' = Upd(t, [r EXCEPT !.pc = "golc", !.gDir = r.self, !.gName = r.name,
                                  !.gRet = "rm_impl", !.attempt = r.attempt + 1,
                                  !.child = 0, !.trSelf = 0])

RemoveSteps(t) ==
  \/ RemoveImpl(t)
  \/ RemoveAcquire(t)
  \/ TryRemoveLocked(t)
  \/ TryRemoveCheck(t)
  \/ RemoveAfter(t)

(***************************************************************************)
(* rename.                                                                 *)
(***************************************************************************)
\* TreeInode::rename(name, destParent, destName) on directory d.
Rename(t, d, n, e, m) ==
  /\ CanStart(t)
  /\ d \in LoadedTrees /\ e \in LoadedTrees
  /\ th' = Upd(t, [th[t] EXCEPT !.op = "rename", !.self = d, !.name = n,
                     !.destParent = e, !.destName = m, !.pc = "rn_acq"])
  /\ UNCHANGED <<dirs, loc, overlay, nextIno, journal, renameLock, clock, loads, futs, dotEden, fuseRefs, requests, channel>>

\* rename: acquire the rename lock, then materialize this directory.
RenameAcquire(t) ==
  LET r == th[t] IN
  /\ r.pc = "rn_acq"
  /\ renameLock = NoThread
  /\ renameLock' = t
  /\ th' = Upd(t, [r EXCEPT !.pc = "mat", !.matSelf = r.self, !.haveRL = TRUE,
                     !.matRet = IF r.destParent # r.self THEN "rn_mat2" ELSE "rn_locks"])
  /\ UNCHANGED <<dirs, loc, overlay, nextIno, journal, clock, loads, futs, dotEden, fuseRefs, requests, channel>>

\* rename: materialize the destination parent.
RenameMaterializeDest(t) ==
  LET r == th[t] IN
  /\ r.pc = "rn_mat2"
  /\ th' = Upd(t, [r EXCEPT !.pc = "mat", !.matSelf = r.destParent, !.haveRL = TRUE,
                     !.matRet = "rn_locks"])
  /\ UNCHANGED <<dirs, loc, overlay, nextIno, journal, renameLock, clock, loads, futs, dotEden, fuseRefs, requests, channel>>

RECURSIVE isAncestor(_, _)
\* isAncestor(renameLock, a, b): a is a proper ancestor of b.
isAncestor(a, b) ==
  LET parent == loc[b].parent IN
  IF parent = 0 THEN FALSE
  ELSE IF parent = a THEN TRUE
  ELSE isAncestor(a, parent)

Held(t) == {x \in DOMAIN clock : clock[x] = t}

\* TreeRenameLocks::lockDestChild: the destination child whose contents_
\* is locked too (a loaded directory), or 0.
lockDestChild(e, m) ==
  IF Present(e, m) /\ isDirectory(dirs[e].entries[m]) /\ dirs[e].entries[m].loaded
  THEN dirs[e].entries[m].ino ELSE 0

\* An acquireLocks that always starts with the source directory.
acquireLocksSourceFirst(t) ==
  LET r == th[t]
      h == Held(t)
      dc == lockDestChild(r.destParent, r.destName)
  IN
  IF r.self \notin h THEN r.self
  ELSE IF r.destParent \notin h THEN r.destParent
  ELSE IF dc # 0 /\ dc \notin h THEN dc ELSE 0

\* TreeRenameLocks::acquireLocks: the contents_ lock the rename takes
\* next, or 0 when it holds them all.
acquireLocks(t) ==
  LET r == th[t]
      src == r.self
      dest == r.destParent
      h == Held(t)
      dc == lockDestChild(dest, r.destName)
  IN
  IF src = dest
  THEN IF src \notin h THEN src
       ELSE IF dc # 0 /\ dc \notin h THEN dc ELSE 0
  ELSE IF isAncestor(src, dest)
  THEN IF src \notin h THEN src
       ELSE IF dest \notin h THEN dest
       ELSE IF dc # 0 /\ dc \notin h THEN dc ELSE 0
  ELSE IF dest \notin h THEN dest
       ELSE IF dc # 0 /\ dc \notin h THEN dc
       ELSE IF src \notin h THEN src ELSE 0

\* One contents_ lock of acquireLocks.
RenameLockNext(t) ==
  /\ th[t].pc = "rn_locks"
  /\ acquireLocks(t) # 0
  /\ Free(acquireLocks(t))
  /\ clock' = (acquireLocks(t) :> t) @@ clock
  /\ UNCHANGED <<dirs, loc, overlay, nextIno, journal, renameLock, loads, futs, dotEden, fuseRefs, requests, channel, th>>

\* The process dies (abort or fault): no thread takes another step.
Crash ==
  th' = [u \in Threads |-> [IdleThread EXCEPT !.pc = "dead", !.res = "SIGSEGV",
                                              !.done = MaxOps]]

\* rename's input validation with the locks held.  destChildIsEmpty()
\* reads through destChildContents_, which is null when the destination
\* directory is not loaded: the outcomes of that read are a fault, or
\* either answer.
validate(r) ==
  LET d == r.self
      e == r.destParent
      srcEntry == dirs[d].entries[r.name]
      destExists == Present(e, r.destName)
      destEntry == dirs[e].entries[r.destName]
      srcInode == IF srcEntry.loaded THEN srcEntry.ino ELSE 0
      destChild == IF destEntry.loaded THEN destEntry.ino ELSE 0
  IN
  IF ~Present(d, r.name) THEN {"ENOENT"}
  ELSE IF isDirectory(srcEntry) /\ destExists /\ ~isDirectory(destEntry) THEN {"ENOTDIR"}
  ELSE IF isDirectory(srcEntry) /\ destExists /\ destChild # srcInode /\ destChild = 0
  THEN {"SIGSEGV", "ENOTEMPTY", "pass"}
  ELSE IF isDirectory(srcEntry) /\ destExists /\ destChild # srcInode
          /\ DOMAIN dirs[destChild].entries # {}
  THEN {"ENOTEMPTY"}
  ELSE IF ~isDirectory(srcEntry) /\ destExists /\ isDirectory(destEntry) THEN {"EISDIR"}
  ELSE {"pass"}

\* A rename that ends with an error, releasing every lock.
RenameFail(t, e) ==
  /\ th' = Upd(t, Finish(t, e))
  /\ clock' = Unlocked(t)
  /\ renameLock' = NoThread
  /\ UNCHANGED <<dirs, loc>>

\* A doRename that moves the entry without its source-control hash.
doRenameDropsHash(t, r) ==
  LET d == r.self
      e == r.destParent
      srcEntry == dirs[d].entries[r.name]
      lc1 == [loc EXCEPT ![srcEntry.ino] = [parent |-> e, name |-> r.destName,
                                            unlinked |-> FALSE]]
  IN
  /\ dirs' = EraseEntry(SetEntry(dirs, e, r.destName, [srcEntry EXCEPT !.hash = None]),
                        d, r.name)
  /\ loc' = IF Present(e, r.destName)
            THEN markUnlinked(lc1, dirs[e].entries[r.destName].ino) ELSE lc1
  /\ th' = Upd(t, [r EXCEPT !.pc = "rn_save1", !.child = srcEntry.ino,
                     !.deleted = IF Present(e, r.destName)
                                 THEN dirs[e].entries[r.destName].ino ELSE 0])
  /\ UNCHANGED <<clock, renameLock>>
\* A doRename that copies the entry and leaves the source entry in place.
doRenameKeepSource(t, r) ==
  LET d == r.self
      e == r.destParent
      srcEntry == dirs[d].entries[r.name]
      destExists == Present(e, r.destName)
      lc1 == [loc EXCEPT ![srcEntry.ino] = [parent |-> e, name |-> r.destName,
                                            unlinked |-> FALSE]]
  IN
  /\ dirs' = SetEntry(dirs, e, r.destName, srcEntry)
  /\ loc' = IF destExists THEN markUnlinked(lc1, dirs[e].entries[r.destName].ino) ELSE lc1
  /\ th' = Upd(t, [r EXCEPT !.pc = "rn_save1", !.child = srcEntry.ino,
                     !.deleted = IF destExists THEN dirs[e].entries[r.destName].ino ELSE 0])
  /\ UNCHANGED <<clock, renameLock>>
\* TreeInode::doRename after its checks: unlink a replaced destination,
\* move the entry, tell the child, erase the source entry.
doRename(t, r) ==
  LET d == r.self
      e == r.destParent
      srcEntry == dirs[d].entries[r.name]
      destExists == Present(e, r.destName)
      ds1 == SetEntry(dirs, e, r.destName, srcEntry)
      lc1 == [loc EXCEPT ![srcEntry.ino] = [parent |-> e, name |-> r.destName,
                                            unlinked |-> FALSE]]
  IN
  /\ dirs' = EraseEntry(ds1, d, r.name)
  /\ loc' = IF destExists THEN markUnlinked(lc1, dirs[e].entries[r.destName].ino) ELSE lc1
  /\ th' = Upd(t, [r EXCEPT !.pc = "rn_save1", !.child = srcEntry.ino,
                     !.deleted = IF destExists THEN dirs[e].entries[r.destName].ino ELSE 0])
  /\ UNCHANGED <<clock, renameLock>>

\* rename with all locks held: validate, then either start loading the
\* endpoints that are not loaded, or doRename.
RenameLocked(t) ==
  LET r == th[t]
      d == r.self
      e == r.destParent
  IN
  /\ r.pc = "rn_locks"
  /\ acquireLocks(t) = 0
  /\ UNCHANGED <<overlay, nextIno, journal, loads, futs, dotEden, fuseRefs, requests, channel>>
  /\ \E v \in validate(r) :
       IF v = "SIGSEGV" THEN Crash /\ UNCHANGED <<dirs, loc, clock, renameLock>>
       ELSE IF v # "pass" THEN RenameFail(t, v)
       ELSE IF isUnlinked(e) THEN RenameFail(t, "ENOENT")
       ELSE LET srcEntry == dirs[d].entries[r.name]
                destExists == Present(e, r.destName)
                needSrc == ~srcEntry.loaded
                needDest == destExists /\ ~dirs[e].entries[r.destName].loaded
            IN
            IF needSrc \/ needDest
            THEN /\ th' = Upd(t, [r EXCEPT !.needSrc = needSrc, !.needDest = needDest,
                                    !.pc = "rn_load"])
                 /\ clock' = Unlocked(t)
                 /\ renameLock' = NoThread
                 /\ UNCHANGED <<dirs, loc>>
            ELSE IF destExists /\ srcEntry.ino = dirs[e].entries[r.destName].ino
            THEN RenameFail(t, "ok")
            ELSE IF isDirectory(srcEntry)
                    /\ (srcEntry.ino = e \/ isAncestor(srcEntry.ino, e))
            THEN RenameFail(t, "EINVAL")
            ELSE doRename(t, r)

\* A doRename that keeps the contents_ locks until the rename returns.
RenameSaveSrcKeepsLocks(t) ==
  LET r == th[t] IN
  /\ r.pc = "rn_save1"
  /\ overlay' = saveOverlayDir(overlay, r.self, dirs[r.self])
  /\ th' = Upd(t, [r EXCEPT !.pc = IF r.destParent # r.self THEN "rn_save2"
                                   ELSE "rn_journal"])
  /\ UNCHANGED <<dirs, loc, nextIno, journal, renameLock, clock, loads, futs, dotEden, fuseRefs, requests, channel>>

\* doRename: save the source parent's listing.
RenameSaveSrc(t) ==
  LET r == th[t] IN
  /\ r.pc = "rn_save1"
  /\ overlay' = saveOverlayDir(overlay, r.self, dirs[r.self])
  /\ IF r.destParent # r.self
     THEN /\ th' = Upd(t, [r EXCEPT !.pc = "rn_save2"])
          /\ clock' = clock
     ELSE /\ th' = Upd(t, [r EXCEPT !.pc = "rn_journal"])
          /\ clock' = Unlocked(t)
  /\ UNCHANGED <<dirs, loc, nextIno, journal, renameLock, loads, futs, dotEden, fuseRefs, requests, channel>>

\* doRename: save the destination parent's listing, release the
\* contents_ locks.
RenameSaveDest(t) ==
  LET r == th[t] IN
  /\ r.pc = "rn_save2"
  /\ overlay' = saveOverlayDir(overlay, r.destParent, dirs[r.destParent])
  /\ th' = Upd(t, [r EXCEPT !.pc = "rn_journal"])
  /\ clock' = Unlocked(t)
  /\ UNCHANGED <<dirs, loc, nextIno, journal, renameLock, loads, futs, dotEden, fuseRefs, requests, channel>>

\* A doRename that destroys the replaced inode before it releases the
\* rename lock.
RenameJournalDestroysFirst(t) ==
  LET r == th[t]
      srcPath == getPath(r.self)
      destPath == getPath(r.destParent)
      gone == r.deleted
  IN
  /\ r.pc = "rn_journal"
  /\ journal' = IF srcPath # NoPath /\ destPath # NoPath
                THEN Append(journal, JournalDelta("RENAME", Append(srcPath, r.name),
                                                  Append(destPath, r.destName)))
                ELSE journal
  /\ loc' = IF gone # 0 THEN Remove(loc, gone) ELSE loc
  /\ dirs' = IF gone \in DOMAIN dirs THEN Remove(dirs, gone) ELSE dirs
  /\ overlay' = IF gone \in DOMAIN overlay THEN removeOverlayData(overlay, gone) ELSE overlay
  /\ renameLock' = NoThread
  /\ th' = Upd(t, Finish(t, "ok"))
  /\ UNCHANGED <<nextIno, clock, loads, futs, dotEden, fuseRefs, requests, channel>>

\* doRename: the RENAME journal delta, then the rename lock is released.
RenameJournal(t) ==
  LET r == th[t]
      srcPath == getPath(r.self)
      destPath == getPath(r.destParent)
  IN
  /\ r.pc = "rn_journal"
  /\ journal' = IF srcPath # NoPath /\ destPath # NoPath
                THEN Append(journal, JournalDelta("RENAME", Append(srcPath, r.name),
                                                  Append(destPath, r.destName)))
                ELSE journal
  /\ renameLock' = NoThread
  /\ th' = Upd(t, Finish(t, "ok"))
  /\ UNCHANGED <<dirs, loc, overlay, nextIno, clock, loads, futs, dotEden, fuseRefs, requests, channel>>

\* rename with the locks released: load the endpoints that were not
\* loaded, one getOrLoadChild at a time, then run rename again.
RenameLoad(t) ==
  LET r == th[t] IN
  /\ r.pc = "rn_load"
  /\ UNCHANGED <<dirs, loc, overlay, nextIno, journal, renameLock, clock, loads, futs, dotEden, fuseRefs, requests, channel>>
  /\ IF r.gRes \notin {"", "ok"} THEN th' = Upd(t, Finish(t, r.gRes))
     ELSE IF r.needSrc
     THEN th' = Upd(t, [r EXCEPT !.needSrc = FALSE, !.pc = "golc", !.gDir = r.self,
                          !.gName = r.name, !.gRet = "rn_load", !.gRes = ""])
     ELSE IF r.needDest
     THEN th' = Upd(t, [r EXCEPT !.needDest = FALSE, !.pc = "golc", !.gDir = r.destParent,
                          !.gName = r.destName, !.gRet = "rn_load", !.gRes = ""])
     ELSE th' = Upd(t, [r EXCEPT !.pc = "rn_acq", !.gRes = "", !.gDir = 0, !.gIno = 0])

RenameSteps(t) ==
  \/ RenameAcquire(t)
  \/ RenameMaterializeDest(t)
  \/ RenameLockNext(t)
  \/ RenameLocked(t)
  \/ RenameSaveSrc(t)
  \/ RenameSaveDest(t)
  \/ RenameJournal(t)
  \/ RenameLoad(t)

(***************************************************************************)
(* checkout.                                                               *)
(***************************************************************************)
\* A null TreeEntry pointer, and the entries of a Tree pointer that may be
\* null (None).
NoScm == [type |-> "none", hash |-> None]
ScmEntries(h) == IF h = None THEN <<>> ELSE TreeEntries(h)
ScmEntry(h, n) == IF n \in DOMAIN ScmEntries(h) THEN ScmEntries(h)[n] ELSE NoScm

\* CheckoutContext::addConflict(type, inode, name), addError
addConflict(ctx, type, d, n) == [ctx EXCEPT !.conflicts = @ \cup {<<type, d, n>>}]
addError(ctx, n) == [ctx EXCEPT !.errors = @ \cup {n}]
\* A context that never reports a dry run.
neverDryRun(ctx) == FALSE
\* CheckoutContext::isDryRun
isDryRun(ctx) == ctx.dryRun

\* A short-circuit rule that, outside a dry run, asks for a fromTree equal
\* to the treeHash.
canShortCircuitOnlyFromTree(ctx, treeHash, fromTree, toTree) ==
  IF isDryRun(ctx)
  THEN IF fromTree # None THEN treeHash = fromTree
       ELSE toTree = None \/ treeHash = toTree
  ELSE toTree # None /\ treeHash = toTree /\ treeHash = fromTree

\* TreeInode::canShortCircuitCheckout; fromTree and toTree are hashes or None.
canShortCircuitCheckout(ctx, treeHash, fromTree, toTree) ==
  IF isDryRun(ctx)
  THEN IF fromTree # None THEN treeHash = fromTree
       ELSE toTree = None \/ treeHash = toTree
  ELSE IF toTree = None \/ treeHash # toTree THEN FALSE
  ELSE IF fromTree = None THEN TRUE
  ELSE treeHash = fromTree

\* A CheckoutAction for the inode ino of entry n; wait is set when the
\* action was given the future of a load instead of a loaded inode.
CheckoutAction(n, old, new, ino, wait) ==
  [name |-> n, old |-> old, new |-> new, ino |-> ino, wait |-> wait]

\* The Entry built from a source-control entry.
ScmToEntry(new) == EntryFromHash(modeFromTreeEntryType(new.type), new.hash)

\* A processCheckoutEntry that adds an entry for every name with no local
\* entry and reports nothing.
addMissingEntryAlways(acc, d, n, old, new) ==
  IF new = NoScm THEN acc
  ELSE [acc EXCEPT !.w.dirs = SetEntry(acc.w.dirs, d, n, ScmToEntry(new))]
\* processCheckoutEntry for a name with no local entry, on the accumulator
\* acc = [w: the world, ctx, actions].
addMissingEntry(acc, d, n, old, new) ==
  LET ctx == acc.ctx
      emplaced == [acc EXCEPT !.w.dirs = SetEntry(acc.w.dirs, d, n, ScmToEntry(new))]
  IN
  IF old = NoScm THEN (IF ~isDryRun(ctx) THEN emplaced ELSE acc)
  ELSE IF new = NoScm
  THEN [acc EXCEPT !.ctx = addConflict(ctx, "MISSING_REMOVED", d, n)]
  ELSE IF ctx.force
  THEN [emplaced EXCEPT !.ctx = addConflict(ctx, "REMOVED_MODIFIED", d, n)]
  ELSE [acc EXCEPT !.ctx = addConflict(ctx, "REMOVED_MODIFIED", d, n)]

\* A processCheckoutEntry that applies the new entry over a conflict in
\* every mode.
updateUnloadedEntryOverConflict(acc, d, n, old, new) ==
  LET entry == acc.w.dirs[d].entries[n]
      conflictType == IF old = NoScm THEN "UNTRACKED_ADDED"
                      ELSE IF entry.hash # old.hash THEN "MODIFIED_MODIFIED"
                      ELSE "ERROR"
      reported == IF conflictType # "ERROR"
                  THEN [acc EXCEPT !.ctx = addConflict(acc.ctx, conflictType, d, n)]
                  ELSE acc
  IN
  IF isDryRun(acc.ctx) THEN reported
  ELSE IF new = NoScm
  THEN [reported EXCEPT !.w.dirs = EraseEntry(reported.w.dirs, d, n)]
  ELSE [reported EXCEPT !.w.dirs = SetEntry(reported.w.dirs, d, n, ScmToEntry(new))]
\* processCheckoutEntry for a local entry that is not loaded, has no inode
\* number and is not a directory in conflict: report the conflict, and
\* update the entry unless the conflict or a dry run forbids it.
updateUnloadedEntry(acc, d, n, old, new) ==
  LET ctx == acc.ctx
      entry == acc.w.dirs[d].entries[n]
      conflictType == IF old = NoScm THEN "UNTRACKED_ADDED"
                      ELSE IF entry.hash # old.hash THEN "MODIFIED_MODIFIED"
                      ELSE "ERROR"
      reported == IF conflictType # "ERROR"
                  THEN [acc EXCEPT !.ctx = addConflict(ctx, conflictType, d, n)]
                  ELSE acc
  IN
  IF conflictType # "ERROR" /\ ~ctx.force THEN reported
  ELSE IF isDryRun(ctx) THEN reported
  ELSE IF new = NoScm
  THEN [reported EXCEPT !.w.dirs = EraseEntry(reported.w.dirs, d, n)]
  ELSE [reported EXCEPT !.w.dirs = SetEntry(reported.w.dirs, d, n, ScmToEntry(new))]

\* TreeInode::processCheckoutEntry on the accumulator
\* acc = [w: the world, ctx, actions] for directory d and name n.
processCheckoutEntry(acc, t, d, n, old, new) ==
  LET ctx == acc.ctx
      contents == acc.w.dirs[d]
  IN
  IF ~ctx.force /\ old # NoScm /\ new # NoScm /\ old.type = new.type /\ old.hash = new.hash
  THEN acc
  ELSE IF n \notin DOMAIN contents.entries
  THEN addMissingEntry(acc, d, n, old, new)
  ELSE
    LET entry == contents.entries[n]
        loading == [acc EXCEPT
                      !.w = loadChildLocked(acc.w, t, d, n),
                      !.actions = Append(@, CheckoutAction(n, old, new,
                                     IF hasInodeNumber(entry) THEN entry.ino ELSE acc.w.nextIno,
                                     TRUE))]
        conflict == old = NoScm \/ entry.hash # old.hash
    IN
    IF entry.loaded
    THEN [acc EXCEPT !.actions = Append(@, CheckoutAction(n, old, new, entry.ino, FALSE))]
    ELSE IF hasInodeNumber(entry) THEN loading
    ELSE IF conflict /\ isDirectory(entry) THEN loading
    ELSE updateUnloadedEntry(acc, d, n, old, new)

RECURSIVE WalkEntries(_, _, _, _, _, _)
\* The merge walk of computeCheckoutActions over the names ns of fromTree
\* and toTree in order.
WalkEntries(acc, t, d, ns, fromTree, toTree) ==
  IF ns = <<>> THEN acc
  ELSE WalkEntries(processCheckoutEntry(acc, t, d, ns[1], ScmEntry(fromTree, ns[1]),
                                        ScmEntry(toTree, ns[1])),
                   t, d, Tail(ns), fromTree, toTree)

\* TreeInode::computeCheckoutActions under the contents_ lock of d.
computeCheckoutActions(t, ctx, d, fromTree, toTree) ==
  LET acc0 == [w |-> World, ctx |-> ctx, actions |-> <<>>, skipped |-> FALSE] IN
  IF dirs[d].treeHash # None /\ canShortCircuitCheckout(ctx, dirs[d].treeHash, fromTree, toTree)
  THEN [acc0 EXCEPT !.skipped = TRUE]
  ELSE WalkEntries(acc0, t, d,
                   SortedNames(DOMAIN ScmEntries(fromTree) \cup DOMAIN ScmEntries(toTree)),
                   fromTree, toTree)

\* One TreeInode::checkout call in progress: the directory, the two trees,
\* the actions and the one being run, whether computeCheckoutActions
\* returned early, what saveOverlayPostCheckout found,
\* and what the caller does when the call returns.
CheckoutFrame(d, fromTree, toTree, cont) ==
  [dir |-> d, from |-> fromTree, to |-> toTree, actions |-> <<>>, idx |-> 1,
   skipped |-> FALSE, isMat |-> FALSE, changed |-> FALSE, cont |-> cont]

\* EdenMount::checkout: a checkout of the root from the current commit to
\* toTree.
StartCheckout(t, toTree, force, dryRun) ==
  /\ CanStart(t)
  /\ th' = Upd(t, [th[t] EXCEPT !.op = "checkout", !.pc = "co_start",
                     !.ctx = [dryRun |-> dryRun, force |-> force, conflicts |-> {},
                              errors |-> {}],
                     !.co = <<CheckoutFrame(kRootNodeId, th[t].snapshot, toTree, "next")>>])
  /\ UNCHANGED <<dirs, loc, overlay, nextIno, journal, renameLock, clock, loads, futs, dotEden, fuseRefs, requests, channel>>

\* CheckoutContext::start: the checkout takes the rename lock.
CheckoutAcquire(t) ==
  /\ th[t].pc = "co_start"
  /\ renameLock = NoThread
  /\ renameLock' = t
  /\ th' = Upd(t, [th[t] EXCEPT !.pc = "co_compute", !.haveRL = TRUE])
  /\ UNCHANGED <<dirs, loc, overlay, nextIno, journal, clock, loads, futs, dotEden, fuseRefs, requests, channel>>

\* TreeInode::checkout: computeCheckoutActions on the directory of the
\* innermost call.
ComputeCheckoutActions(t) ==
  LET r == th[t]
      f == r.co[1]
      acc == computeCheckoutActions(t, r.ctx, f.dir, f.from, f.to)
  IN
  /\ r.pc = "co_compute"
  /\ Free(f.dir)
  /\ acc.w.nextIno <= MaxIno + 1
  /\ dirs' = acc.w.dirs
  /\ nextIno' = acc.w.nextIno
  /\ loads' = acc.w.loads
  /\ futs' = acc.w.futs
  /\ th' = Upd(t, [r EXCEPT !.pc = "co_finish", !.ctx = acc.ctx,
                     !.co[1].actions = acc.actions, !.co[1].skipped = acc.skipped])
  /\ UNCHANGED <<loc, overlay, journal, renameLock, clock, dotEden, fuseRefs, requests, channel>>

\* checkout: IncompleteInodeLoad::finish() for each pending load.
CheckoutFinishLoads(t) ==
  /\ th[t].pc = "co_finish"
  /\ futs' = registerInodeLoadComplete(futs, t)
  /\ th' = Upd(t, [th[t] EXCEPT !.pc = "co_run"])
  /\ UNCHANGED <<dirs, loc, overlay, nextIno, journal, renameLock, clock, loads, dotEden, fuseRefs, requests, channel>>

\* The record of thread r with the current action of its innermost
\* checkout done.
NextAction(r) == [r EXCEPT !.co[1].idx = @ + 1, !.pc = "co_run"]

\* CheckoutAction::hasConflict for a loaded inode: the conflict type, or
\* "none".  A file is the same as the old blob when it is not materialized
\* and its hash is the blob's.
hasConflict(a, d) ==
  IF a.old = NoScm THEN "UNTRACKED_ADDED"
  ELSE IF a.old.type = "tree"
  THEN (IF ~isTree(a.ino) THEN "MODIFIED_MODIFIED" ELSE "none")
  ELSE IF isTree(a.ino) THEN "MODIFIED_MODIFIED"
  ELSE IF Present(d, a.name) /\ dirs[d].entries[a.name].ino = a.ino
          /\ dirs[d].entries[a.name].hash = a.old.hash
  THEN "none"
  ELSE "MODIFIED_MODIFIED"

\* checkout: run the next CheckoutAction once its inode is there, or, with
\* every action done, go on to saveOverlayPostCheckout.
CheckoutRun(t) ==
  LET r == th[t]
      f == r.co[1]
  IN
  /\ r.pc = "co_run"
  /\ UNCHANGED <<dirs, loc, overlay, nextIno, journal, renameLock, clock, loads, futs, dotEden, fuseRefs, requests, channel>>
  /\ IF f.idx > Len(f.actions)
     THEN th' = Upd(t, [r EXCEPT !.pc = "co_save"])
     ELSE LET a == f.actions[f.idx]
              seen == [r EXCEPT !.got = [i \in DOMAIN r.got \ {a.ino} |-> r.got[i]]]
              conflict == hasConflict(a, f.dir)
          IN
          /\ a.wait => a.ino \in DOMAIN r.got
          /\ IF a.wait /\ r.got[a.ino] = "err"
             THEN th' = Upd(t, NextAction([seen EXCEPT !.ctx = addError(r.ctx, a.name)]))
             ELSE IF conflict # "none"
             THEN LET told == [seen EXCEPT !.ctx = addConflict(r.ctx, conflict, f.dir, a.name)]
                  IN IF r.ctx.force THEN th' = Upd(t, [told EXCEPT !.pc = "co_update"])
                     ELSE th' = Upd(t, NextAction(told))
             ELSE th' = Upd(t, [seen EXCEPT !.pc = "co_update"])

\* TreeInode::checkoutUpdateEntry on the directory of the innermost call:
\* a file is unlinked and its entry replaced or erased under the contents_
\* lock; a directory is checked out in turn.
CheckoutUpdateEntry(t) ==
  LET r == th[t]
      f == r.co[1]
      d == f.dir
      a == f.actions[f.idx]
      oldTree == IF a.old.type = "tree" THEN a.old.hash ELSE None
  IN
  /\ r.pc = "co_update"
  /\ UNCHANGED <<overlay, nextIno, journal, renameLock, clock, loads, futs, dotEden, fuseRefs, requests, channel>>
  /\ IF ~isTree(a.ino)
     THEN IF isDryRun(r.ctx)
          THEN /\ th' = Upd(t, NextAction(r))
               /\ UNCHANGED <<dirs, loc>>
          ELSE /\ Free(d)
               /\ IF ~Present(d, a.name) \/ ~dirs[d].entries[a.name].loaded
                     \/ dirs[d].entries[a.name].ino # a.ino
                  THEN \* EDEN_BUG: the action's future holds the exception
                       /\ th' = Upd(t, NextAction([r EXCEPT !.ctx = addError(r.ctx, a.name)]))
                       /\ UNCHANGED <<dirs, loc>>
                  ELSE /\ loc' = markUnlinked(loc, a.ino)
                       /\ dirs' = IF a.new # NoScm
                                  THEN SetEntry(dirs, d, a.name,
                                                EntryFromHash(modeFromTreeEntryType(a.new.type),
                                                              a.new.hash))
                                  ELSE EraseEntry(dirs, d, a.name)
                       /\ th' = Upd(t, NextAction(r))
     ELSE /\ UNCHANGED <<dirs, loc>>
          /\ IF a.new.type = "tree"
             THEN th' = Upd(t, [r EXCEPT !.pc = "co_compute",
                                  !.co = <<CheckoutFrame(a.ino, oldTree, a.new.hash, "next")>> \o @])
             ELSE IF isDryRun(r.ctx) THEN th' = Upd(t, NextAction(r))
             ELSE th' = Upd(t, [r EXCEPT !.pc = "co_compute",
                                  !.co = <<CheckoutFrame(a.ino, oldTree, None, "then")>> \o @])

\* A tryToDematerialize that never finds the directory identical to the
\* Tree.
tryToDematerializeNever(dir, tree) == None

\* tryToDematerialize in saveOverlayPostCheckout: the hash of tree when
\* the directory has as many entries as the Tree and, position by position
\* in sorted order, no entry is materialized and each has the hash of the
\* Tree's entry; None otherwise.
tryToDematerialize(dir, tree) ==
  LET scmNames == SortedNames(DOMAIN ScmEntries(tree))
      inodeNames == SortedNames(DOMAIN dir.entries)
  IN
  IF tree = None THEN None
  ELSE IF Len(scmNames) # Len(inodeNames) THEN None
  ELSE IF \A k \in 1..Len(scmNames) :
            /\ ~isMaterialized(dir.entries[inodeNames[k]])
            /\ dir.entries[inodeNames[k]].hash = ScmEntries(tree)[scmNames[k]].hash
  THEN tree
  ELSE None

\* A saveOverlayPostCheckout that tells the parent of a materialization
\* only, and goes on to remove the data of a dematerialized directory.
TellParentOfMaterializedOnly(r, d) ==
  LET f == r.co[1] IN
  IF f.changed /\ f.isMat /\ loc[d].parent # 0 /\ ~loc[d].unlinked
  THEN [r EXCEPT !.pc = "ch", !.chCur = loc[d].parent, !.chName = loc[d].name,
                 !.chIno = d, !.chRet = "co_rmdata"]
  ELSE [r EXCEPT !.pc = "co_rmdata"]

\* saveOverlayPostCheckout: the parent hears of a change of state, by
\* childMaterialized or childDematerialized, unless this is the root or
\* the directory is unlinked.
TellParent(r, d) ==
  LET f == r.co[1] IN
  IF f.changed /\ loc[d].parent # 0 /\ ~loc[d].unlinked
  THEN IF f.isMat
       THEN [r EXCEPT !.pc = "ch", !.chCur = loc[d].parent, !.chName = loc[d].name,
                      !.chIno = d, !.chRet = "co_rmdata"]
       ELSE [r EXCEPT !.pc = "co_demat"]
  ELSE [r EXCEPT !.pc = "co_rmdata"]

\* TreeInode::saveOverlayPostCheckout under the contents_ lock: set
\* treeHash, save the listing of a materialized directory, and go on to
\* remove an empty directory whose Tree is gone or to tell the parent.
SaveOverlayPostCheckout(t) ==
  LET r == th[t]
      f == r.co[1]
      d == f.dir
      newHash == tryToDematerialize(dirs[d], f.to)
      dir1 == [dirs[d] EXCEPT !.treeHash = newHash]
      deleteSelf == f.to = None /\ DOMAIN dirs[d].entries = {}
      r1 == [r EXCEPT !.co[1].isMat = DirIsMaterialized(dir1),
                      !.co[1].changed = (dirs[d].treeHash # newHash)]
  IN
  /\ r.pc = "co_save"
  /\ UNCHANGED <<loc, nextIno, journal, renameLock, clock, loads, futs, dotEden, fuseRefs, requests, channel>>
  /\ IF isDryRun(r.ctx)
     THEN /\ th' = Upd(t, [r EXCEPT !.pc = "co_rmdata"])
          /\ UNCHANGED <<dirs, overlay>>
     ELSE /\ Free(d)
          /\ dirs' = [dirs EXCEPT ![d] = dir1]
          /\ overlay' = IF DirIsMaterialized(dir1) THEN saveOverlayDir(overlay, d, dir1)
                        ELSE overlay
          /\ IF deleteSelf /\ loc[d].parent # 0
             THEN th' = Upd(t, [r1 EXCEPT !.pc = "mat", !.matSelf = loc[d].parent,
                                  !.matRet = "tr_lock", !.haveRL = TRUE,
                                  !.trSelf = loc[d].parent, !.trName = loc[d].name,
                                  !.trChild = d, !.trRet = "co_removed"])
             ELSE th' = Upd(t, TellParent(r1, d))

\* saveOverlayPostCheckout after checkoutTryRemoveEmptyDir: done when the
\* directory was removed, else on to the parent.
CheckoutRemoved(t) ==
  LET r == th[t]
      cleared == [r EXCEPT !.trSelf = 0, !.trChild = 0, !.trName = NoName, !.trRes = "",
                           !.deleted = 0, !.trRet = ""]
  IN
  /\ r.pc = "co_removed"
  /\ IF r.trRes = "ok"
     THEN th' = Upd(t, [cleared EXCEPT !.pc = "co_rmdata", !.co[1].changed = FALSE])
     ELSE th' = Upd(t, TellParent(cleared, r.co[1].dir))
  /\ UNCHANGED <<dirs, loc, overlay, nextIno, journal, renameLock, clock, loads, futs, dotEden, fuseRefs, requests, channel>>

\* TreeInode::childDematerialized(renameLock, childName, childScmHash) on
\* the parent of the directory of the innermost call.
ChildDematerialized(t) ==
  LET r == th[t]
      f == r.co[1]
      p == loc[f.dir].parent
      n == loc[f.dir].name
  IN
  /\ r.pc = "co_demat"
  /\ Free(p)
  /\ UNCHANGED <<loc, nextIno, journal, clock, loads, futs, dotEden, fuseRefs, requests, channel>>
  /\ IF ~Present(p, n)
     THEN \* EDEN_BUG: the exception unwinds the checkout
          /\ th' = Upd(t, Finish(t, "BUG"))
          /\ renameLock' = NoThread
          /\ UNCHANGED <<dirs, overlay>>
     ELSE /\ renameLock' = renameLock
          /\ IF ~isMaterialized(dirs[p].entries[n]) /\ dirs[p].entries[n].hash = f.to
             THEN /\ th' = Upd(t, [r EXCEPT !.pc = "co_rmdata"])
                  /\ UNCHANGED <<dirs, overlay>>
             ELSE LET dir1 == [dirs[p] EXCEPT !.entries[n] = setDematerialized(@, f.to),
                                              !.treeHash = None]
                  IN
                  /\ dirs' = [dirs EXCEPT ![p] = dir1]
                  /\ overlay' = saveOverlayDir(overlay, p, dir1)
                  /\ IF loc[p].parent # 0 /\ ~loc[p].unlinked
                     THEN th' = Upd(t, [r EXCEPT !.pc = "ch", !.chCur = loc[p].parent,
                                          !.chName = loc[p].name, !.chIno = p,
                                          !.chRet = "co_rmdata"])
                     ELSE th' = Upd(t, [r EXCEPT !.pc = "co_rmdata"])

\* The end of saveOverlayPostCheckout and of this TreeInode::checkout: a
\* directory that became dematerialized loses its overlay data; then the
\* caller goes on, or the whole checkout ends and drops the rename lock.
CheckoutReturn(t) ==
  LET r == th[t]
      f == r.co[1]
      rest == Tail(r.co)
  IN
  /\ r.pc = "co_rmdata"
  /\ overlay' = IF f.changed /\ ~f.isMat THEN removeOverlayData(overlay, f.dir) ELSE overlay
  /\ IF rest = <<>>
     THEN /\ th' = Upd(t, [Finish(t, "ok") EXCEPT
                              !.ctx = r.ctx,
                              !.snapshot = IF r.ctx.dryRun THEN r.snapshot ELSE f.to])
          /\ renameLock' = NoThread
     ELSE /\ renameLock' = renameLock
          /\ IF f.cont = "then"
             THEN th' = Upd(t, [r EXCEPT !.co = rest, !.pc = "co_then", !.chCur = 0])
             ELSE th' = Upd(t, NextAction([r EXCEPT !.co = rest, !.chCur = 0]))
  /\ UNCHANGED <<dirs, loc, nextIno, journal, clock, loads, futs, dotEden, fuseRefs, requests, channel>>

\* checkoutUpdateEntry after the checkout of a directory that the new tree
\* replaces by a file or removes: the directory must have been unlinked,
\* and the new entry is put in its place.
CheckoutThen(t) ==
  LET r == th[t]
      f == r.co[1]
      d == f.dir
      a == f.actions[f.idx]
  IN
  /\ r.pc = "co_then"
  /\ UNCHANGED <<loc, overlay, nextIno, journal, renameLock, clock, loads, futs, dotEden, fuseRefs, requests, channel>>
  /\ IF ~isUnlinked(a.ino)
     THEN /\ th' = Upd(t, NextAction([r EXCEPT !.ctx = addConflict(r.ctx, "DIRECTORY_NOT_EMPTY", d, a.name)]))
          /\ dirs' = dirs
     ELSE IF a.new = NoScm
     THEN /\ th' = Upd(t, NextAction(r))
          /\ dirs' = dirs
     ELSE /\ Free(d)
          /\ IF ~Present(d, a.name)
             THEN /\ dirs' = SetEntry(dirs, d, a.name,
                                      EntryFromHash(modeFromTreeEntryType(a.new.type), a.new.hash))
                  /\ th' = Upd(t, NextAction(r))
             ELSE /\ dirs' = dirs
                  /\ th' = Upd(t, NextAction([r EXCEPT !.ctx = addError(r.ctx, a.name)]))

CheckoutSteps(t) ==
  \/ CheckoutAcquire(t)
  \/ ComputeCheckoutActions(t)
  \/ CheckoutFinishLoads(t)
  \/ CheckoutRun(t)
  \/ CheckoutUpdateEntry(t)
  \/ SaveOverlayPostCheckout(t)
  \/ CheckoutRemoved(t)
  \/ ChildDematerialized(t)
  \/ CheckoutReturn(t)
  \/ CheckoutThen(t)

(***************************************************************************)
(* Inode lifetime.                                                         *)
(***************************************************************************)
\* An unlinked inode that nothing refers to any more is destroyed, and its
\* overlay data with it.
DestroyUnlinked ==
  \E i \in Loaded :
    /\ isUnlinked(i)
    /\ i \notin AllHeldPtrs
    /\ i \notin DOMAIN clock
    /\ loc' = Remove(loc, i)
    /\ dirs' = IF i \in DOMAIN dirs THEN Remove(dirs, i) ELSE dirs
    /\ overlay' = IF i \in DOMAIN overlay THEN removeOverlayData(overlay, i) ELSE overlay
    /\ UNCHANGED <<nextIno, journal, renameLock, clock, loads, futs, dotEden, fuseRefs, requests, channel, th>>

\* Reference-counted unload: a loaded child that nothing refers to is
\* dropped from memory under its parent's contents_ lock; the parent's
\* entry keeps the inode number and loses the pointer.
UnloadInode ==
  \E d \in LoadedTrees : \E n \in DOMAIN dirs[d].entries :
    LET e == dirs[d].entries[n] IN
    /\ e.loaded /\ isDirectory(e)
    /\ Free(d) /\ Free(e.ino)
    /\ e.ino \notin AllHeldPtrs
    /\ e.ino \notin DOMAIN loads
    /\ \A m \in DOMAIN dirs[e.ino].entries : ~dirs[e.ino].entries[m].loaded
    /\ dirs' = Remove(SetEntry(dirs, d, n, [e EXCEPT !.loaded = FALSE]), e.ino)
    /\ loc' = Remove(loc, e.ino)
    /\ UNCHANGED <<overlay, nextIno, journal, renameLock, clock, loads, futs, dotEden, fuseRefs, requests, channel, th>>

\* The directory an unloadChildren call of thread t is working on: that of
\* the innermost call, the first of its caller's remaining treeChildren.
UnloadCur(r) == IF r.unl = <<>> THEN r.self ELSE r.unl[1][1]
\* The loaded TreeInode children of d, in entry order.
treeChildren(d) ==
  LET S == {n \in DOMAIN dirs[d].entries :
              dirs[d].entries[n].loaded /\ isDirectory(dirs[d].entries[n])}
      ns == SortedNames(S)
  IN [k \in 1..Len(ns) |-> dirs[d].entries[ns[k]].ino]
\* An unload that does not look at the pointers to the inode.
isPtrAcquireCountIgnored(i) == TRUE
\* InodeBase::isPtrAcquireCountZero: no InodePtr refers to the inode.
isPtrAcquireCountZero(i) == i \notin AllHeldPtrs
RECURSIVE UnloadReturn(_)
\* A call without tree children returns: its caller goes on with the next
\* of its treeChildren, or returns in turn.
UnloadReturn(unl) ==
  IF unl = <<>> THEN <<>>
  ELSE IF Len(unl[1]) > 1 THEN <<Tail(unl[1])>> \o Tail(unl)
  ELSE UnloadReturn(Tail(unl))
\* The entries of d that the locked section of an unloadChildren call
\* unloads: loaded files, among cand, that no pointer refers to.
UnloadableFiles(d, cand) ==
  {n \in DOMAIN dirs[d].entries :
     LET e == dirs[d].entries[n] IN
     /\ e.loaded /\ ~isDirectory(e)
     /\ e.ino \in cand
     /\ isPtrAcquireCountZero(e.ino)}
\* InodeMap::unloadInode and Entry::clearInode for the entries ns of d, and
\* the delete of the unloaded inodes after the locks are released.
UnloadEntries(d, ns) ==
  /\ dirs' = [dirs EXCEPT ![d].entries =
                [n \in DOMAIN @ |-> IF n \in ns THEN [@[n] EXCEPT !.loaded = FALSE]
                                    ELSE @[n]]]
  /\ loc' = [i \in DOMAIN loc \ {dirs[d].entries[n].ino : n \in ns} |-> loc[i]]
\* The call on d is over but for its tree children tc: descend into the
\* first of them, or return.
UnloadDescend(t, r, tc, pc) ==
  LET unl1 == IF tc # <<>> THEN <<tc>> \o r.unl ELSE UnloadReturn(r.unl) IN
  th' = Upd(t, IF unl1 = <<>> THEN Finish(t, "ok")
               ELSE [r EXCEPT !.unl = unl1, !.pc = pc, !.toUnload = {}])

\* TreeInode::unloadChildrenNow is called on the loaded directory d.
UnloadChildrenNow(t, d) ==
  /\ CanStart(t)
  /\ d \in LoadedTrees
  /\ th' = Upd(t, [th[t] EXCEPT !.op = "unloadNow", !.pc = "un_lock", !.self = d])
  /\ UNCHANGED <<dirs, loc, overlay, nextIno, journal, renameLock, clock, loads, futs, dotEden, fuseRefs, requests, channel>>

\* unloadChildrenNow on one directory: under the contents_ write lock and
\* the inode map's unload lock, every loaded file that no pointer refers
\* to is unloaded; the tree children are only collected, and visited next.
UnloadNowLocked(t) ==
  LET r == th[t]
      d == UnloadCur(r)
  IN
  /\ r.pc = "un_lock"
  /\ Free(d)
  /\ UnloadEntries(d, UnloadableFiles(d, Loaded))
  /\ UnloadDescend(t, r, treeChildren(d), "un_lock")
  /\ UNCHANGED <<overlay, nextIno, journal, renameLock, clock, loads, futs, dotEden, fuseRefs, requests, channel>>

\* TreeInode::unloadChildrenLastAccessedBefore is called on the loaded
\* directory d.
UnloadChildrenLastAccessedBefore(t, d) ==
  /\ CanStart(t)
  /\ d \in LoadedTrees
  /\ th' = Upd(t, [th[t] EXCEPT !.op = "unloadBefore", !.pc = "ul_list", !.self = d])
  /\ UNCHANGED <<dirs, loc, overlay, nextIno, journal, renameLock, clock, loads, futs, dotEden, fuseRefs, requests, channel>>

\* Its first phase, under the contents_ read lock: pointers to the loaded
\* files are collected.
UnloadBeforeList(t) ==
  LET r == th[t]
      d == UnloadCur(r)
  IN
  /\ r.pc = "ul_list"
  /\ Free(d)
  /\ th' = Upd(t, [r EXCEPT !.pc = "ul_filter",
                     !.potentialUnload =
                        {dirs[d].entries[n].ino :
                           n \in {m \in DOMAIN dirs[d].entries :
                                    dirs[d].entries[m].loaded
                                    /\ ~isDirectory(dirs[d].entries[m])}}])
  /\ UNCHANGED <<dirs, loc, overlay, nextIno, journal, renameLock, clock, loads, futs, dotEden, fuseRefs, requests, channel>>

\* Its second phase, without a lock: the files last accessed before the
\* cutoff are kept as raw pointers, and the pointers are dropped.
UnloadBeforeFilter(t) ==
  LET r == th[t] IN
  /\ r.pc = "ul_filter"
  /\ \E old \in SUBSET r.potentialUnload :
       th' = Upd(t, [r EXCEPT !.pc = "ul_lock", !.toUnload = old,
                               !.potentialUnload = {}])
  /\ UNCHANGED <<dirs, loc, overlay, nextIno, journal, renameLock, clock, loads, futs, dotEden, fuseRefs, requests, channel>>

\* Its third phase, under the contents_ write lock and the unload lock:
\* the kept files that no pointer refers to are unloaded.
UnloadBeforeLocked(t) ==
  LET r == th[t]
      d == UnloadCur(r)
  IN
  /\ r.pc = "ul_lock"
  /\ Free(d)
  /\ UnloadEntries(d, UnloadableFiles(d, r.toUnload))
  /\ UnloadDescend(t, r, treeChildren(d), "ul_list")
  /\ UNCHANGED <<overlay, nextIno, journal, renameLock, clock, loads, futs, dotEden, fuseRefs, requests, channel>>

UnloadSteps(t) ==
  \/ UnloadNowLocked(t)
  \/ UnloadBeforeList(t)
  \/ UnloadBeforeFilter(t)
  \/ UnloadBeforeLocked(t)

(***************************************************************************)
(* Mounts.                                                                 *)
(***************************************************************************)
RootLoc == [parent |-> 0, name |-> NoName, unlinked |-> FALSE]

\* A mount whose root was loaded from the overlay after a restart: a and d
\* are materialized and not loaded, e is unmodified.
RestartRoot ==
  [entries |-> ("a" :> EntryFromIno("reg", 2)) @@ ("d" :> EntryFromIno("dir", 3))
               @@ ("e" :> EntryFromHash("dir", "TE")),
   treeHash |-> None]
RestartD ==
  [entries |-> ("c" :> EntryFromHash("reg", "b1")), treeHash |-> None]

InitLoad ==
  /\ dirs = (kRootNodeId :> RestartRoot)
  /\ loc = (kRootNodeId :> RootLoc)
  /\ overlay = (kRootNodeId :> DirData(RestartRoot)) @@ (2 :> FileData)
               @@ (3 :> DirData(RestartD))
  /\ nextIno = 4
  /\ journal = <<>>
  /\ renameLock = NoThread
  /\ clock = <<>>
  /\ loads = <<>>
  /\ futs = <<>>
  /\ dotEden = 0
  /\ fuseRefs = <<>>
  /\ requests = <<>>
  /\ channel = <<>>
  /\ th = [t \in Threads |-> IdleThread]

NextLoad ==
  \/ \E t \in Threads : \E n \in {"a", "d", "e", "f"} : Lookup(t, kRootNodeId, n)
  \/ \E t \in Threads : LookupInode(t)
  \/ \E t \in Threads : LoadChildInode(t)
  \/ \E t \in Threads : LoadMaterializedChildren(t)
  \/ \E t \in Threads : FinishLoads(t)
  \/ \E t \in Threads : LoadsCollected(t)
  \/ \E t \in Threads : LoadSteps(t)
  \/ LoadCallbacks

SpecLoad == InitLoad /\ [][NextLoad]_vars

\* The scheduling of the load protocol: a thread that can take a step
\* takes it, and a ready future runs its callbacks.
FairLoad ==
  /\ SpecLoad
  /\ \A t \in Threads :
       WF_vars(LoadSteps(t) \/ LoadChildInode(t) \/ FinishLoads(t) \/ LoadsCollected(t))
  /\ WF_vars(LoadCallbacks)

\* The loads in flight for inode number i.
InFlight(i) == {k \in DOMAIN futs : futs[k].ino = i}
\* Thread t has asked for inode i and holds a promise not yet fulfilled.
Requested(t, i) ==
  /\ i \notin DOMAIN th[t].got
  /\ \/ th[t].pc \in {"golc_wait", "golc_dot"} /\ th[t].gIno = i
     \/ th[t].pc = "golc_post" /\ th[t].gFut # "value" /\ th[t].gIno = i
     \/ th[t].pc \in {"lmc_finish", "lmc_wait"} /\ i \in th[t].waitOn

\* C5: for every inode number at most one load is in flight, the inode is
\* not loaded while its load is in flight, and every thread that asked for
\* the inode meanwhile is a waiter registered with the inode map.
C5_SingleLoad ==
  \A i \in 1..(MaxIno + 1) :
    /\ Cardinality(InFlight(i)) <= 1
    /\ InFlight(i) # {} => i \in DOMAIN loads /\ i \notin Loaded
    /\ \A t \in Threads : Requested(t, i) => t \in Waiters(i)

\* Two threads wait on the one load in flight for an inode.
C5_Witness ==
  \E i \in DOMAIN loads :
    /\ loads[i] = Threads
    /\ Cardinality(InFlight(i)) = 1
    /\ \A t \in Threads : Requested(t, i)

\* A load the inode map knows of has exactly one source of its outcome:
\* one future, or one loadChildInode call about to start it.
LoadAccounted ==
  \A i \in DOMAIN loads :
    Cardinality(InFlight(i)) + Cardinality({t \in Threads : th[t].pc = "golc_dot" /\ th[t].gIno = i}) = 1

Waiting(t) == \E i \in DOMAIN loads : t \in loads[i]

InitRename ==
  /\ dirs = (kRootNodeId :> SetEntry((kRootNodeId :> buildDirFromTree("R1")), kRootNodeId, "e",
                                     [mode |-> "dir", hash |-> "TE", ino |-> 2,
                                      loaded |-> TRUE])[kRootNodeId])
            @@ (2 :> buildDirFromTree("TE"))
  /\ loc = (kRootNodeId :> RootLoc) @@ (2 :> [parent |-> kRootNodeId, name |-> "e", unlinked |-> FALSE])
  /\ overlay = <<>>
  /\ nextIno = 3
  /\ journal = <<>>
  /\ renameLock = NoThread
  /\ clock = <<>>
  /\ loads = <<>>
  /\ futs = <<>>
  /\ dotEden = 0
  /\ fuseRefs = <<>>
  /\ requests = <<>>
  /\ channel = <<>>
  /\ th = [t \in Threads |-> IdleThread]

\* The loaded, linked directories named x ("" is the root).
DirNamed(x) ==
  {i \in LoadedTrees : IF x = NoName THEN i = kRootNodeId
                       ELSE i # kRootNodeId /\ loc[i].name = x /\ ~loc[i].unlinked}

\* The renames that are called: <<source parent, source name,
\* destination parent, destination name>>, parents by name.
RenameCalls ==
  {<<"d", "c", "e", "f">>, <<"", "d", "inner", "d">>, <<"", "d", "", "d">>,
   <<"", "f", "", "a">>, <<"", "e", "", "a">>, <<"", "e", "", "d">>,
   <<"", "a", "", "e">>, <<"", "a", "e", "a">>, <<"", "e", "d", "inner">>,
   <<"d", "c", "", "d">>, <<"", "d", "d", "inner">>, <<"d", "c", "", "e">>}

\* One thread renames; the other looks directories up and removes e.
NextRename ==
  \/ \E d \in LoadedTrees : \E n \in {"d", "inner"} : Lookup("t2", d, n)
  \/ \E c \in RenameCalls : \E d \in DirNamed(c[1]) : \E e \in DirNamed(c[3]) :
       Rename("t1", d, c[2], e, c[4])
  \/ Remove_("t2", kRootNodeId, "e", "rmdir")
  \/ \E t \in Threads : LoadSteps(t)
  \/ LoadCallbacks
  \/ \E t \in Threads : MaterializeSteps(t)
  \/ \E t \in Threads : RemoveSteps(t)
  \/ \E t \in Threads : RenameSteps(t)
  \/ DestroyUnlinked

SpecRename == InitRename /\ [][NextRename]_vars

(***************************************************************************)
(* Properties of rename.                                                   *)
(***************************************************************************)
\* Thread t is in rename with all its locks held, about to validate.
RenameAt(t) == th[t].pc = "rn_locks" /\ acquireLocks(t) = 0
\* The step ends thread t's operation with result x.
Ends(t, x) == th'[t].pc = "idle" /\ th'[t].res = x /\ th'[t].done = th[t].done + 1
\* The step sends the rename to load its endpoints and start over.
Reloads(t) == th'[t].pc = "rn_load"

\* Whether the directory an entry names has no entries, loaded or not.
EntryIsEmptyDir(e) ==
  IF e.loaded THEN DOMAIN dirs[e.ino].entries = {}
  ELSE IF ~isMaterialized(e) THEN DOMAIN TreeEntries(e.hash) = {}
  ELSE e.ino \in DOMAIN overlay => DOMAIN overlay[e.ino].entries = {}

\* The names, modes, hashes and inode numbers of the entries of every
\* directory, and its treeHash: the listing without the loaded pointers.
Listing(ds) == [i \in DOMAIN ds |-> DirData(ds[i])]
\* The entry names and modes of every directory.
Names(ds) ==
  [i \in DOMAIN ds |-> [n \in DOMAIN ds[i].entries |-> ds[i].entries[n].mode]]

\* The source of t's rename is a loaded directory that is the destination
\* parent or one of its ancestors.
IntoDescendant(t) ==
  LET r == th[t] IN
  /\ r.op = "rename"
  /\ r.self \in DOMAIN dirs /\ Present(r.self, r.name)
  /\ LET se == dirs[r.self].entries[r.name] IN
       isDirectory(se) /\ se.loaded /\ (se.ino = r.destParent \/ isAncestor(se.ino, r.destParent))

\* C8: with the rename locks held, rename fails with NotFound on an absent
\* source, NotDir for a directory over a non-directory, NotEmpty for a
\* directory over a different non-empty directory, IsDir for a file over a
\* directory, NotFound for an unlinked destination parent, Invalid for a
\* directory moved under itself; the same inode is a no-op success.  The
\* conditions are taken in this order; a rename whose endpoints are not
\* loaded may first reload them.
C8_RenameValidation ==
  [][\A t \in Threads : (RenameAt(t) /\ th'[t] # th[t]) =>
      LET r == th[t]
          d == r.self
          e == r.destParent
          se == dirs[d].entries[r.name]
          de == dirs[e].entries[r.destName]
          destExists == Present(e, r.destName)
          same == destExists /\ d = e /\ r.name = r.destName
          unloaded == ~se.loaded \/ (destExists /\ ~de.loaded)
      IN
      IF ~Present(d, r.name) THEN Ends(t, "ENOENT")
      ELSE IF isDirectory(se) /\ destExists /\ ~isDirectory(de) THEN Ends(t, "ENOTDIR")
      ELSE IF isDirectory(se) /\ destExists /\ ~same /\ ~EntryIsEmptyDir(de)
      THEN Ends(t, "ENOTEMPTY") \/ (unloaded /\ Reloads(t))
      ELSE IF ~isDirectory(se) /\ destExists /\ isDirectory(de) THEN Ends(t, "EISDIR")
      ELSE IF isUnlinked(e) THEN Ends(t, "ENOENT") \/ (unloaded /\ Reloads(t))
      ELSE IF unloaded THEN Reloads(t) \/ Ends(t, "ENOTEMPTY")
      ELSE IF same
      THEN Ends(t, "ok") /\ Listing(dirs') = Listing(dirs) /\ journal' = journal
      ELSE IF IntoDescendant(t) THEN Ends(t, "EINVAL")
      ELSE TRUE]_vars

\* C9 as stated: no step of a rename of a directory into its own
\* descendant changes any directory's entries or treeHash, any overlay
\* listing, or the journal.
C9_Unchanged ==
  [][\A t \in Threads : (IntoDescendant(t) /\ th'[t] # th[t] /\ th[t].pc # "idle") =>
      /\ \A i \in DOMAIN dirs \cap DOMAIN dirs' : DirData(dirs'[i]) = DirData(dirs[i])
      /\ overlay' = overlay
      /\ journal' = journal]_vars

\* C9, amended: a rename of a directory into its own descendant, the
\* destination parent linked and the destination name absent, fails with
\* Invalid; no step of it changes a directory's entry names or modes or
\* the journal, and the only change it makes is to materialize the source
\* and destination parents and their ancestors, saving their listings.
C9_IntoDescendantRefused ==
  [][\A t \in Threads : (IntoDescendant(t) /\ th'[t] # th[t] /\ th[t].pc # "idle") =>
      /\ \A i \in DOMAIN dirs \cap DOMAIN dirs' : Names(dirs')[i] = Names(dirs)[i]
      /\ journal' = journal
      /\ \A i \in DOMAIN overlay' :
           i \notin DOMAIN overlay \/ overlay'[i] # overlay[i] =>
             /\ i \in DOMAIN dirs' /\ overlay'[i] = DirData(dirs'[i])
             /\ dirs'[i].treeHash = None
             /\ i = th[t].self \/ i = th[t].destParent
                \/ isAncestor(i, th[t].self) \/ isAncestor(i, th[t].destParent)
      /\ DOMAIN overlay \subseteq DOMAIN overlay'
      /\ \A i \in DOMAIN dirs \cap DOMAIN dirs' :
           dirs[i].treeHash # None /\ dirs'[i].treeHash = None =>
             i \in DOMAIN overlay' /\ overlay'[i] = DirData(dirs'[i])
      /\ (RenameAt(t) /\ ~isUnlinked(th[t].destParent)
            /\ (Present(th[t].destParent, th[t].destName) =>
                  LET de == dirs[th[t].destParent].entries[th[t].destName] IN
                  isDirectory(de) /\ de.loaded /\ DOMAIN dirs[de.ino].entries = {}))
           => Ends(t, "EINVAL")]_vars

\* rename("d", "d/inner/d") was refused with Invalid, and its parents,
\* unmaterialized before, are materialized now.
C9_Witness ==
  \E t \in Threads :
    /\ th[t].pc = "idle" /\ th[t].res = "EINVAL"
    /\ dirs[kRootNodeId].treeHash = None
    /\ \E i \in DirNamed("inner") : dirs[i].treeHash = None /\ i \in DOMAIN overlay
    /\ journal = <<>>

\* The directories from i up to the root are materialized, each
\* materialized in its parent's entry.
RECURSIVE MaterializedToRoot(_)
MaterializedToRoot(i) ==
  /\ dirs[i].treeHash = None
  /\ i # kRootNodeId =>
       /\ Present(loc[i].parent, loc[i].name)
       /\ isMaterialized(dirs[loc[i].parent].entries[loc[i].name])
       /\ MaterializedToRoot(loc[i].parent)

\* The pcs of rename from its first check to the journal append.
RenameBody == {"rn_mat2", "rn_locks", "rn_save1", "rn_save2", "rn_journal"}

\* C10: a successful rename across two parents d and e leaves both and
\* their ancestors materialized, moves the entry with its inode number and
\* hash from d to e, sets the child's parent and name, saves both
\* listings, appends exactly one RENAME delta, and holds the rename lock
\* from before the first check until after the journal append.
C10_RenameAcrossParents ==
  /\ [](\A t \in Threads :
          (th[t].op = "rename" /\ (th[t].pc \in RenameBody \/ th[t].pc \in {"mat", "ch"}))
            => renameLock = t)
  /\ [][\A t \in Threads : (th[t].op = "rename" /\ th[t].self # th[t].destParent) =>
         LET r == th[t]
             d == r.self
             e == r.destParent
         IN
         /\ (RenameAt(t) /\ th'[t].pc = "rn_save1") =>
              /\ MaterializedToRoot(d) /\ MaterializedToRoot(e)
              /\ dirs'[e].entries[r.destName] = dirs[d].entries[r.name]
              /\ r.name \notin DOMAIN dirs'[d].entries
              /\ DOMAIN dirs'[e].entries = DOMAIN dirs[e].entries \cup {r.destName}
              /\ loc'[dirs[d].entries[r.name].ino] =
                   [parent |-> e, name |-> r.destName, unlinked |-> FALSE]
              /\ th'[t].child = dirs[d].entries[r.name].ino
              /\ journal' = journal
         /\ (r.pc = "rn_save1" /\ th'[t] # r) =>
              /\ overlay'[d] = DirData(dirs[d]) /\ dirs' = dirs /\ renameLock' = t
              /\ th'[t].pc = "rn_save2" /\ journal' = journal
         /\ (r.pc = "rn_save2" /\ th'[t] # r) =>
              /\ overlay'[e] = DirData(dirs[e]) /\ overlay'[d] = overlay[d]
              /\ dirs' = dirs /\ renameLock' = t
              /\ th'[t].pc = "rn_journal" /\ journal' = journal
         /\ (r.pc = "rn_journal" /\ th'[t] # r) =>
              /\ Ends(t, "ok")
              /\ getPath(d) # NoPath /\ getPath(e) # NoPath
              /\ journal' = Append(journal, JournalDelta("RENAME", Append(getPath(d), r.name),
                                                         Append(getPath(e), r.destName)))
              /\ renameLock = t]_vars

\* rename("d/c", "e/f") succeeded on d and e: both listings are saved
\* with the entry moved, and the journal holds the one RENAME delta.
C10_Witness ==
  \E t \in Threads : \E d \in DirNamed("d") : \E e \in DirNamed("e") :
    /\ th[t].pc = "idle" /\ th[t].res = "ok"
    /\ journal = <<JournalDelta("RENAME", <<"d", "c">>, <<"e", "f">>)>>
    /\ ~Present(d, "c") /\ Present(e, "f")
    /\ dirs[e].entries["f"].hash = "b1" /\ dirs[e].entries["f"].ino # 0
    /\ MaterializedToRoot(d) /\ MaterializedToRoot(e)
    /\ overlay[d] = DirData(dirs[d]) /\ overlay[e] = DirData(dirs[e])

(***************************************************************************)
(* A mount with the .eden directory: the root is materialized and holds   *)
(* the empty directory e, loaded, the directory d of tree D1, not loaded,  *)
(* and .eden, loaded.                                                      *)
(***************************************************************************)
LockRoot ==
  [entries |-> ("e" :> [mode |-> "dir", hash |-> "TE", ino |-> 2, loaded |-> TRUE])
               @@ ("d" :> EntryFromHash("dir", "D1"))
               @@ (kDotEdenName :> [EntryFromIno("dir", 3) EXCEPT !.loaded = TRUE]),
   treeHash |-> None]
InitLock ==
  /\ dirs = (kRootNodeId :> LockRoot) @@ (2 :> buildDirFromTree("TE"))
            @@ (3 :> [entries |-> <<>>, treeHash |-> None])
  /\ loc = (kRootNodeId :> RootLoc)
           @@ (2 :> [parent |-> kRootNodeId, name |-> "e", unlinked |-> FALSE])
           @@ (3 :> [parent |-> kRootNodeId, name |-> kDotEdenName, unlinked |-> FALSE])
  /\ overlay = saveOverlayDir(saveOverlayDir(<<>>, 3, [entries |-> <<>>, treeHash |-> None]),
                              kRootNodeId, LockRoot)
  /\ nextIno = 4
  /\ journal = <<>>
  /\ renameLock = NoThread
  /\ clock = <<>>
  /\ loads = <<>>
  /\ futs = <<>>
  /\ dotEden = 3
  /\ fuseRefs = <<>>
  /\ requests = <<>>
  /\ channel = <<>>
  /\ th = [t \in Threads |-> IdleThread]

NextLock ==
  \/ \E d \in DirNamed("e") : Lookup("t1", d, kDotEdenName)
  \/ Lookup("t1", kRootNodeId, "d")
  \/ Remove_("t2", kRootNodeId, "e", "rmdir")
  \/ \E d \in DirNamed("e") : Create("t2", d, "f", "reg", FALSE)
  \/ \E t \in Threads : LoadSteps(t)
  \/ \E t \in Threads : LoadChildInode(t)
  \/ LoadCallbacks
  \/ \E t \in Threads : MaterializeSteps(t)
  \/ \E t \in Threads : MaterializeOwnLock(t)
  \/ \E t \in Threads : CreateSteps(t)
  \/ \E t \in Threads : RemoveSteps(t)
  \/ UnloadInode
  \/ DestroyUnlinked

SpecLock == InitLock /\ [][NextLock]_vars

\* The contents_ locks and the rename lock thread t holds; 0 stands for
\* the rename lock.
HoldsLocks(t) == Held(t) \cup (IF renameLock = t THEN {0} ELSE {})
\* The lock thread t is blocked requesting at its position, if any.
Wants(t) ==
  LET r == th[t] IN
  CASE r.pc = "golc" -> {r.gDir}
    [] r.pc = "golc_dot" -> {r.lcDir}
    [] r.pc \in {"mat", "mat_w"} -> {r.matSelf}
    [] r.pc = "ch" -> {r.chCur}
    [] r.pc = "cr_lock" -> {r.self}
    [] r.pc = "tr_lock" -> {r.trSelf}
    [] r.pc = "tr_check" -> {r.trChild}
    [] r.pc = "rn_locks" -> {acquireLocks(t)} \ {0}
    [] r.pc \in {"mat_acq", "rm_acq", "rn_acq"} -> {0}
    [] OTHER -> {}
\* Thread t waits for a lock that thread u holds.
WaitsFor(t, u) == Wants(t) \cap HoldsLocks(u) # {}

\* C7: no two threads wait on each other's locks; no thread requests the
\* rename lock while it holds a contents lock; no thread requests the
\* contents lock of an ancestor of a directory whose contents lock it holds.
C7_DeadlockFree ==
  /\ \A t \in Threads : \A u \in Threads : ~(WaitsFor(t, u) /\ WaitsFor(u, t))
  /\ \A t \in Threads : 0 \in Wants(t) => Held(t) = {}
  /\ \A t \in Threads : \A w \in Wants(t) \ {0} : \A h \in Held(t) :
       h \in DOMAIN loc /\ w \in DOMAIN loc => ~isAncestor(w, h)

(***************************************************************************)
(* A mount of commit R1 on which one thread checks other commits out while *)
(* the other creates entries in the directory d and renames in the root.   *)
(* d has been looked up and is loaded; e has been looked up and unloaded   *)
(* again, so its entry keeps the inode number.                             *)
(***************************************************************************)
MatRoot ==
  [entries |-> ("a" :> EntryFromHash("reg", "b1"))
               @@ ("d" :> [mode |-> "dir", hash |-> "D1", ino |-> 2, loaded |-> TRUE])
               @@ ("e" :> [mode |-> "dir", hash |-> "TE", ino |-> 3, loaded |-> FALSE]),
   treeHash |-> "R1"]
InitMat ==
  /\ dirs = (kRootNodeId :> MatRoot) @@ (2 :> buildDirFromTree("D1"))
  /\ loc = (kRootNodeId :> RootLoc)
           @@ (2 :> [parent |-> kRootNodeId, name |-> "d", unlinked |-> FALSE])
  /\ overlay = <<>>
  /\ nextIno = 4
  /\ journal = <<>>
  /\ renameLock = NoThread
  /\ clock = <<>>
  /\ loads = <<>>
  /\ futs = <<>>
  /\ dotEden = 0
  /\ fuseRefs = <<>>
  /\ requests = <<>>
  /\ channel = <<>>
  /\ th = [t \in Threads |-> IdleThread]

\* The checkouts that are called with commit from checked out:
\* <<commit, force, dry run>>.
CheckoutCalls(from) ==
  IF from = "R1"
  THEN {<<"R2", FALSE, FALSE>>, <<"R2", TRUE, FALSE>>, <<"R2", FALSE, TRUE>>,
        <<"S1", FALSE, FALSE>>}
  ELSE {<<"R1", TRUE, FALSE>>}

NextMat ==
  \/ \E c \in CheckoutCalls(th["t1"].snapshot) : StartCheckout("t1", c[1], c[2], c[3])
  \/ \E d \in DirNamed("d") : \E c \in {<<"f", "create">>, <<"f", "mkdir">>, <<"c", "create">>} :
       Create("t2", d, c[1], c[2], FALSE)
  \/ \E d \in DirNamed("d") : Remove_("t2", d, "c", "unlink")
  \/ Rename("t2", kRootNodeId, "a", kRootNodeId, "b")
  \/ \E t \in Threads : CheckoutSteps(t)
  \/ \E t \in Threads : GetOrLoadChild(t)
  \/ \E t \in Threads : GetOrLoadChildPost(t)
  \/ \E t \in Threads : GetOrLoadChildDone(t)
  \/ \E t \in Threads : MaterializeSteps(t)
  \/ \E t \in Threads : MaterializeOwnLock(t)
  \/ \E t \in Threads : CreateSteps(t)
  \/ \E t \in Threads : RemoveSteps(t)
  \/ \E t \in Threads : RenameAcquire(t)
  \/ \E t \in Threads : RenameLockNext(t)
  \/ \E t \in Threads : RenameLocked(t)
  \/ \E t \in Threads : RenameSaveSrc(t)
  \/ \E t \in Threads : RenameJournal(t)
  \/ \E t \in Threads : RenameLoad(t)
  \/ LoadCallbacks
  \/ DestroyUnlinked

SpecMat == InitMat /\ [][NextMat]_vars

\* Directory d has an entry that is materialized.
HasMaterializedEntry(d) ==
  \E n \in DOMAIN dirs[d].entries : isMaterialized(dirs[d].entries[n])

RECURSIVE MaterializedUpward(_)
\* Directory i and every directory above it have no treeHash.
MaterializedUpward(i) ==
  /\ DirIsMaterialized(dirs[i])
  /\ loc[i].parent # 0 => MaterializedUpward(loc[i].parent)

\* C1: whenever no thread holds the rename lock, every directory of the
\* tree that has a materialized entry is materialized itself, and so is
\* every ancestor of it.
C1_MaterializationMonotonic ==
  renameLock = NoThread =>
    \A d \in LoadedTrees :
      (getPath(d) # NoPath /\ HasMaterializedEntry(d)) => MaterializedUpward(d)

\* C2: at every step, a child that a persisted directory listing records
\* as materialized with inode number N has overlay data under N.
C2_OverlayCoverage ==
  \A i \in DOMAIN overlay :
    overlay[i].kind = "dir" =>
      \A n \in DOMAIN overlay[i].entries :
        overlay[i].entries[n].hash = None => overlay[i].entries[n].ino \in DOMAIN overlay

\* A checkout has replaced the entry of a materialized file in memory and
\* unlinked the file; the directory's persisted listing still records the
\* file as materialized, and the file's overlay data is there.
C2_Witness ==
  \E t \in Threads : \E d \in LoadedTrees \cap DOMAIN overlay :
    \E n \in DOMAIN overlay[d].entries :
      LET e == overlay[d].entries[n] IN
      /\ th[t].op = "checkout" /\ th[t].pc \in {"co_run", "co_save"}
      /\ th[t].co[1].dir = d
      /\ e.hash = None /\ e.ino \in DOMAIN overlay
      /\ Present(d, n) /\ dirs[d].entries[n].ino # e.ino
      /\ e.ino \in Loaded /\ isUnlinked(e.ino)

\* Directory d has the entry names and entry hashes of Tree h, and no
\* materialized entry.
MatchesTree(dir, h) ==
  /\ DOMAIN dir.entries = DOMAIN TreeEntries(h)
  /\ \A n \in DOMAIN dir.entries :
       /\ ~isMaterialized(dir.entries[n])
       /\ dir.entries[n].hash = TreeEntries(h)[n].hash

\* C3: a directory whose contents lock is free and whose treeHash is h has
\* exactly the entry names and hashes of Tree h and no materialized entry.
C3_TreeHashConsistent ==
  \A d \in LoadedTrees :
    (Free(d) /\ ~DirIsMaterialized(dirs[d])) => MatchesTree(dirs[d], dirs[d].treeHash)

\* Thread t takes the step of saveOverlayPostCheckout that sets treeHash.
SavesPostCheckout(t) ==
  /\ th[t].pc = "co_save" /\ ~th[t].ctx.dryRun
  /\ th'[t].pc \notin {"co_save", "dead"}

\* C4: saveOverlayPostCheckout leaves a treeHash only if toTree exists and
\* the directory has toTree's entry names, each entry with the hash of the
\* toTree entry of its name and none materialized, and the treeHash is
\* then toTree's; otherwise the directory is materialized and its listing
\* is in the overlay.
C4_DematerializeCondition ==
  [][\A t \in Threads :
       SavesPostCheckout(t) =>
         LET d == th[t].co[1].dir
             toTree == th[t].co[1].to
         IN IF ~DirIsMaterialized(dirs'[d])
            THEN /\ toTree # None
                 /\ dirs'[d].treeHash = toTree
                 /\ MatchesTree(dirs'[d], toTree)
            ELSE /\ d \in DOMAIN overlay'
                 /\ overlay'[d] = DirData(dirs'[d])]_vars

(***************************************************************************)
(* A mount on which one thread removes the directory e of the root while   *)
(* the other renames directories over e, creates a file in e, and inodes   *)
(* are unloaded.  The root is materialized; e is loaded and empty; d and f *)
(* are empty directories that are not loaded.  The removing thread starts  *)
(* either between operations or inside an rmdir of e that has already been *)
(* sent back for a reload, at any attempt number removeImpl can be called  *)
(* with.                                                                   *)
(***************************************************************************)
RemoveRoot ==
  [entries |-> ("a" :> EntryFromHash("reg", "b1"))
               @@ ("d" :> EntryFromHash("dir", "TE"))
               @@ ("e" :> [mode |-> "dir", hash |-> "TE", ino |-> 2, loaded |-> TRUE])
               @@ ("f" :> EntryFromHash("dir", "TE")),
   treeHash |-> None]

\* The record of a thread whose rmdir(e) on the root reloads the child
\* before attempt number k.
Reloading(k) ==
  [IdleThread EXCEPT !.op = "rmdir", !.kind = "rmdir", !.self = kRootNodeId, !.name = "e",
                     !.attempt = k, !.pc = "golc", !.gDir = kRootNodeId, !.gName = "e",
                     !.gRet = "rm_impl"]

InitRemove ==
  /\ dirs = (kRootNodeId :> RemoveRoot) @@ (2 :> buildDirFromTree("TE"))
  /\ loc = (kRootNodeId :> RootLoc)
           @@ (2 :> [parent |-> kRootNodeId, name |-> "e", unlinked |-> FALSE])
  /\ overlay = saveOverlayDir(<<>>, kRootNodeId, RemoveRoot)
  /\ nextIno = 3
  /\ journal = <<>>
  /\ renameLock = NoThread
  /\ clock = <<>>
  /\ loads = <<>>
  /\ futs = <<>>
  /\ dotEden = 0
  /\ fuseRefs = <<>>
  /\ requests = <<>>
  /\ channel = <<>>
  /\ \E k \in 1..(kMaxRemoveRetries + 1) :
       th = [t \in Threads |-> IF t = "t2" /\ k > 1 THEN Reloading(k) ELSE IdleThread]

NextRemove ==
  \/ Remove_("t2", kRootNodeId, "e", "rmdir")
  \/ \E c \in {<<"d", "e">>, <<"f", "e">>, <<"e", "b">>} :
       Rename("t1", kRootNodeId, c[1], kRootNodeId, c[2])
  \/ \E d \in DirNamed("e") : Create("t1", d, "c", "create", FALSE)
  \/ \E t \in Threads : GetOrLoadChild(t)
  \/ \E t \in Threads : GetOrLoadChildPost(t)
  \/ \E t \in Threads : GetOrLoadChildDone(t)
  \/ \E t \in Threads : MaterializeSteps(t)
  \/ \E t \in Threads : MaterializeOwnLock(t)
  \/ \E t \in Threads : CreateSteps(t)
  \/ \E t \in Threads : RemoveSteps(t)
  \/ \E t \in Threads : RenameAcquire(t)
  \/ \E t \in Threads : RenameLockNext(t)
  \/ \E t \in Threads : RenameLocked(t)
  \/ \E t \in Threads : RenameSaveSrc(t)
  \/ \E t \in Threads : RenameJournal(t)
  \/ \E t \in Threads : RenameLoad(t)
  \/ LoadCallbacks
  \/ UnloadInode
  \/ DestroyUnlinked

SpecRemove == InitRemove /\ [][NextRemove]_vars

\* Thread t takes the step of removeImpl that follows tryRemoveChild.
AfterTryRemove(t) == th[t].pc = "rm_after" /\ th'[t] # th[t]

\* C11: unlink and rmdir start at attempt 1; removeImpl reloads the child
\* only when tryRemoveChild returned EBADF and fewer than 3 reloads have
\* been made, so at most 3 reloads happen; EBADF after the third reload
\* ends the operation with EIO; every other tryRemoveChild error ends the
\* operation at once with that error.
C11_RemoveRetryBounded ==
  [][\A t \in Threads :
       /\ (th[t].pc = "idle" /\ th'[t].op \in {"unlink", "rmdir"}) => th'[t].attempt = 1
       /\ th[t].op \in {"unlink", "rmdir"} =>
            /\ th[t].attempt - 1 \in 0..3
            /\ th'[t].attempt # th[t].attempt =>
                 AfterTryRemove(t) \/ th'[t].pc = "idle" \/ th'[t].pc = "dead"
       /\ AfterTryRemove(t) =>
            IF th[t].trRes = "ok" THEN Ends(t, "ok")
            ELSE IF th[t].trRes # "EBADF" THEN Ends(t, th[t].trRes)
            ELSE IF th[t].attempt - 1 = 3 THEN Ends(t, "EIO")
            ELSE /\ th'[t].pc = "golc" /\ th'[t].gName = th[t].name
                 /\ th'[t].gDir = th[t].self
                 /\ th'[t].attempt = th[t].attempt + 1]_vars

\* An rmdir that has reloaded the child three times gets EBADF once more
\* and ends with EIO.
C11_Witness ==
  \E t \in Threads :
    /\ th[t].pc = "idle" /\ th[t].res = "EIO"
    /\ \E i \in LoadedTrees \ {kRootNodeId} :
         /\ isUnlinked(i) /\ loc[i].name = "e"
    /\ Present(kRootNodeId, "e") /\ ~dirs[kRootNodeId].entries["e"].loaded

(***************************************************************************)
(* A mount with the reserved directory on which one thread removes and     *)
(* looks up entries while the other creates entries.  The root is          *)
(* materialized and holds the file a (loaded), the non-empty directory d   *)
(* (not loaded), the empty directory e (loaded, unmaterialized) and .eden  *)
(* (loaded), which holds the symlink r (loaded).  On some mounts the       *)
(* root's .eden entry has been renamed away.                               *)
(***************************************************************************)
RefuseRoot(hasDot) ==
  [entries |-> ("a" :> [mode |-> "reg", hash |-> "b1", ino |-> 4, loaded |-> TRUE])
               @@ ("d" :> EntryFromHash("dir", "D1"))
               @@ ("e" :> [mode |-> "dir", hash |-> "TE", ino |-> 2, loaded |-> TRUE])
               @@ (IF hasDot
                   THEN (kDotEdenName :> [EntryFromIno("dir", 3) EXCEPT !.loaded = TRUE])
                   ELSE ("b" :> [EntryFromIno("dir", 3) EXCEPT !.loaded = TRUE])),
   treeHash |-> None]
RefuseDotEden ==
  [entries |-> ("r" :> [EntryFromIno("reg", 5) EXCEPT !.loaded = TRUE]), treeHash |-> None]

InitRefuse ==
  \E hasDot \in BOOLEAN :
    /\ dirs = (kRootNodeId :> RefuseRoot(hasDot)) @@ (2 :> buildDirFromTree("TE"))
              @@ (3 :> RefuseDotEden)
    /\ loc = (kRootNodeId :> RootLoc)
             @@ (2 :> [parent |-> kRootNodeId, name |-> "e", unlinked |-> FALSE])
             @@ (3 :> [parent |-> kRootNodeId,
                       name |-> IF hasDot THEN kDotEdenName ELSE "b", unlinked |-> FALSE])
             @@ (4 :> [parent |-> kRootNodeId, name |-> "a", unlinked |-> FALSE])
             @@ (5 :> [parent |-> 3, name |-> "r", unlinked |-> FALSE])
    /\ overlay = createOverlayFile(
                   saveOverlayDir(saveOverlayDir(<<>>, 3, RefuseDotEden),
                                  kRootNodeId, RefuseRoot(hasDot)), 5)
    /\ nextIno = 6
    /\ journal = <<>>
    /\ renameLock = NoThread
    /\ clock = <<>>
    /\ loads = <<>>
    /\ futs = <<>>
    /\ dotEden = 3
    /\ fuseRefs = <<>>
    /\ requests = <<>>
    /\ channel = <<>>
    /\ th = [t \in Threads |-> IdleThread]

\* The removals that are called: <<parent, name, operation>>.
RemoveCalls ==
  {<<kRootNodeId, "e", "unlink">>, <<kRootNodeId, "a", "rmdir">>,
   <<kRootNodeId, "d", "rmdir">>, <<kRootNodeId, "e", "rmdir">>,
   <<3, "r", "unlink">>, <<3, "r", "rmdir">>}
\* The creations that are called: <<parent's name, name, operation, the
\* mode is a socket's>>.
CreateCalls ==
  {<<"e", "f", "mkdir", FALSE>>, <<"e", "f", "symlink", FALSE>>,
   <<"e", "f", "mknod", FALSE>>, <<NoName, "a", "mknod", TRUE>>,
   <<NoName, "a", "mkdir", FALSE>>}

NextRefuse ==
  \/ \E c \in RemoveCalls : Remove_("t1", c[1], c[2], c[3])
  \/ \E d \in DirNamed("e") \cup {kRootNodeId} : \E n \in {kDotEdenName, "f"} :
       Lookup("t1", d, n)
  \/ \E c \in CreateCalls : \E d \in DirNamed(c[1]) : Create("t2", d, c[2], c[3], c[4])
  \/ \E t \in Threads : LoadSteps(t)
  \/ LoadCallbacks
  \/ \E t \in Threads : MaterializeSteps(t)
  \/ \E t \in Threads : MaterializeOwnLock(t)
  \/ \E t \in Threads : CreateSteps(t)
  \/ \E t \in Threads : RemoveSteps(t)
  \/ DestroyUnlinked

SpecRefuse == InitRefuse /\ [][NextRefuse]_vars

\* Thread t takes a step of an unlink or rmdir.
RemoveStep(t) == th[t].op \in {"unlink", "rmdir"} /\ th'[t] # th[t]
\* The step is the one of tryRemoveChild that removes the entry.
Removes(t) == th[t].pc \in {"tr_lock", "tr_check"} /\ th'[t].trRes = "ok"

\* The type and emptiness checks of removeImpl and tryRemoveChild give
\* IsDir, NotDir and NotEmpty, also on the locked re-check.
RemoveTyped(t) ==
  LET r == th[t] IN
  /\ (r.pc = "rm_impl" /\ r.gRes = "ok") =>
       /\ (r.kind = "unlink" /\ isTree(r.gIno)) => Ends(t, "EISDIR")
       /\ (r.kind = "rmdir" /\ ~isTree(r.gIno)) => Ends(t, "ENOTDIR")
       /\ (r.kind = "rmdir" /\ isTree(r.gIno) /\ DOMAIN dirs[r.gIno].entries # {}) =>
            Ends(t, "ENOTEMPTY")
  /\ (r.pc = "tr_check" /\ DOMAIN dirs[r.trChild].entries # {}) =>
       th'[t].pc = "rm_after" /\ th'[t].trRes = "ENOTEMPTY"
  /\ (r.pc = "rm_after" /\ r.trRes \in {"EISDIR", "ENOTDIR", "ENOTEMPTY", "EPERM"}) =>
       Ends(t, r.trRes)

\* A step of a remove that is not the removal keeps every entry of every
\* directory, with its child, marks no inode unlinked and appends nothing
\* to the journal; a refused remove has made no removal.
RemoveRefusedFrame(t) ==
  /\ ~Removes(t) =>
       /\ \A i \in DOMAIN dirs :
            /\ i \in DOMAIN dirs'
            /\ DOMAIN dirs'[i].entries = DOMAIN dirs[i].entries
            /\ \A n \in DOMAIN dirs[i].entries :
                 LET e == dirs[i].entries[n] IN
                 /\ dirs'[i].entries[n].mode = e.mode
                 /\ hasInodeNumber(e) => dirs'[i].entries[n].ino = e.ino
                 /\ e.loaded => dirs'[i].entries[n].loaded
       /\ \A i \in DOMAIN loc : i \in DOMAIN loc' /\ loc'[i].unlinked = loc[i].unlinked
       /\ journal' # journal => Ends(t, "ok")
  /\ \A x \in {"EISDIR", "ENOTDIR", "ENOTEMPTY", "EPERM"} :
       Ends(t, x) => th[t].deleted = 0 /\ journal' = journal

\* C12 as stated: refused removes are typed and leave the entry in place,
\* and every unlink or rmdir of an entry directly under the reserved
\* directory fails with OperationNotPermitted.
C12_AnyEntryNotPermitted ==
  [][\A t \in Threads :
       RemoveStep(t) =>
         /\ RemoveTyped(t)
         /\ RemoveRefusedFrame(t)
         /\ \A x \in {"ok", "EISDIR", "ENOTDIR", "ENOTEMPTY", "EPERM", "EIO", "ENOENT"} :
              (Ends(t, x) /\ th[t].self = dotEden /\ Present(dotEden, th[t].name)) =>
                x = "EPERM"]_vars

\* C12: unlink of a directory fails with IsDir, rmdir of a file with
\* NotDir, rmdir of a non-empty directory with NotEmpty, also on the
\* locked re-check; tryRemoveChild on the reserved directory returns
\* OperationNotPermitted, so under the reserved directory an unlink of a
\* file or rmdir of an empty directory fails with OperationNotPermitted
\* while a remove of the wrong type fails with IsDir or NotDir first.  A
\* refused remove keeps the entry and its child, marks nothing unlinked
\* and appends no Removed record.
C12_RefusedRemoves ==
  [][\A t \in Threads :
       RemoveStep(t) =>
         /\ RemoveTyped(t)
         /\ RemoveRefusedFrame(t)
         /\ (th[t].pc = "tr_lock" /\ th[t].trSelf = dotEden) =>
              th'[t].pc = "rm_after" /\ th'[t].trRes = "EPERM"
         /\ \A x \in {"ok", "EISDIR", "ENOTDIR", "ENOTEMPTY", "EPERM", "EIO", "ENOENT"} :
              (Ends(t, x) /\ th[t].self = dotEden /\ Present(dotEden, th[t].name)) =>
                LET e == dirs[dotEden].entries[th[t].name] IN
                x = IF isDirectory(e) # WantsTree(th[t].kind) THEN WrongTypeErrno(th[t].kind)
                    ELSE IF isDirectory(e) /\ ~EntryIsEmptyDir(e) THEN "ENOTEMPTY"
                    ELSE "EPERM"]_vars

\* A thread's unlink under the reserved directory has been refused with
\* OperationNotPermitted, the entry and its child are in place, and the
\* thread's rmdir of e, which found e empty on the pre-check, has found it
\* non-empty under the lock.
C12_Witness ==
  \E t \in Threads :
    /\ th[t].res = "EPERM" /\ th[t].done = 1
    /\ Present(dotEden, "r") /\ dirs[dotEden].entries["r"].ino = 5 /\ ~isUnlinked(5)
    /\ th[t].kind = "rmdir" /\ th[t].pc = "rm_after" /\ th[t].trRes = "ENOTEMPTY"
    /\ Present(kRootNodeId, "e") /\ ~isUnlinked(dirs[kRootNodeId].entries["e"].ino)
    /\ \A k \in DOMAIN journal : journal[k].type # "REMOVED"

\* Thread t takes the locked step of getOrLoadChild(name) on a directory
\* whose entries do not contain name.
LooksUpMissing(t) ==
  /\ th[t].pc = "golc" /\ th'[t] # th[t]
  /\ ~Present(th[t].gDir, th[t].gName)
\* The step answers with the reserved directory's inode.
ResolvesDotEden(t) ==
  th'[t].pc = th[t].gRet /\ th'[t].gRes = "ok" /\ th'[t].gIno = dotEden
\* The step fails with NotFound.
FailsNotFound(t) ==
  th'[t].pc = th[t].gRet /\ th'[t].gRes = "ENOENT"

\* C13 as stated: a missing name fails with NotFound, except the reserved
\* name in the root directory, which resolves to the reserved directory's
\* inode; the reserved name missing in another directory fails with
\* NotFound.
C13_ReservedNameAtRoot ==
  [][\A t \in Threads :
       LooksUpMissing(t) =>
         IF th[t].gName = kDotEdenName /\ th[t].gDir = kRootNodeId
         THEN ResolvesDotEden(t) ELSE FailsNotFound(t)]_vars

\* C13: a missing name fails with NotFound, except the reserved name in a
\* directory other than the root, which resolves to the reserved
\* directory's inode; the reserved name missing in the root fails with
\* NotFound.
C13_ReservedNameBelowRoot ==
  [][\A t \in Threads :
       LooksUpMissing(t) =>
         IF th[t].gName = kDotEdenName /\ th[t].gDir # kRootNodeId
         THEN ResolvesDotEden(t) ELSE FailsNotFound(t)]_vars

\* A lookup of the reserved name in the directory e, which has no such
\* entry, has resolved to the reserved directory, and the root has lost
\* its entry of that name.
C13_Witness ==
  \E t \in Threads :
    /\ th[t].op = "lookup" /\ th[t].pc = "op_done"
    /\ th[t].gName = kDotEdenName /\ th[t].gDir # kRootNodeId
    /\ ~Present(th[t].gDir, kDotEdenName)
    /\ th[t].gRes = "ok" /\ th[t].gIno = dotEden
    /\ ~Present(kRootNodeId, kDotEdenName)

\* Thread t takes a step of a symlink, mknod or mkdir.
CreateStep(t) == th[t].op \in {"symlink", "mknod", "mkdir"} /\ th'[t] # th[t]

CheckoutMounts == 1..6

MountSnapshot(k) == IF k = 5 THEN "TE" ELSE "R1"

MountRoot(k) ==
  LET r1 == buildDirFromTree("R1") IN
  IF k = 2
  THEN [entries |-> ("a" :> [mode |-> "reg", hash |-> "b1", ino |-> 3, loaded |-> TRUE])
                    @@ ("d" :> [mode |-> "dir", hash |-> "D1", ino |-> 2, loaded |-> TRUE])
                    @@ ("e" :> [mode |-> "dir", hash |-> "TE", ino |-> 4, loaded |-> FALSE]),
        treeHash |-> "R1"]
  ELSE IF k = 3 THEN [entries |-> Remove(r1.entries, "a"), treeHash |-> None]
  ELSE IF k = 6 THEN [entries |-> Remove(r1.entries, "e"), treeHash |-> None]
  ELSE IF k = 4
  THEN [entries |-> ("a" :> EntryFromHash("reg", "b2")) @@ r1.entries, treeHash |-> None]
  ELSE r1

InitCheckout ==
  \E k \in CheckoutMounts :
    /\ dirs = IF k = 2 THEN (kRootNodeId :> MountRoot(k)) @@ (2 :> buildDirFromTree("D1"))
              ELSE (kRootNodeId :> MountRoot(k))
    /\ loc = IF k = 2
             THEN (kRootNodeId :> RootLoc)
                  @@ (2 :> [parent |-> kRootNodeId, name |-> "d", unlinked |-> FALSE])
                  @@ (3 :> [parent |-> kRootNodeId, name |-> "a", unlinked |-> FALSE])
             ELSE (kRootNodeId :> RootLoc)
    /\ overlay = IF DirIsMaterialized(MountRoot(k))
                 THEN saveOverlayDir(<<>>, kRootNodeId, MountRoot(k)) ELSE <<>>
    /\ nextIno = IF k = 2 THEN 5 ELSE 2
    /\ journal = <<>>
    /\ renameLock = NoThread
    /\ clock = <<>>
    /\ loads = <<>>
    /\ futs = <<>>
    /\ dotEden = 0
    /\ fuseRefs = <<>>
    /\ requests = <<>>
    /\ channel = <<>>
    /\ th = [t \in Threads |-> [IdleThread EXCEPT !.snapshot = MountSnapshot(k)]]

\* The modes of a checkout: <<force, dry run>>.
CheckoutModes == {<<FALSE, FALSE>>, <<TRUE, FALSE>>, <<FALSE, TRUE>>}

NextCheckout ==
  \/ \E to \in {"R1", "R2", "S1", "S3"} : \E m \in CheckoutModes :
       StartCheckout("t1", to, m[1], m[2])
  \/ \E t \in Threads : CheckoutSteps(t)
  \/ \E t \in Threads : MaterializeSteps(t)
  \/ \E t \in Threads : TryRemoveLocked(t)
  \/ \E t \in Threads : TryRemoveCheck(t)
  \/ LoadCallbacks
  \/ DestroyUnlinked

SpecCheckout == InitCheckout /\ [][NextCheckout]_vars

\* Thread t takes a step of a dry-run checkout.
DryRunStep(t) == th[t].op = "checkout" /\ th[t].ctx.dryRun /\ th'[t] # th[t]

\* C15: every step of a dry-run checkout, in whatever directory it visits,
\* leaves each directory's entry names, entry modes and hashes (and so the
\* materialization of each entry) and treeHash unchanged, leaves the
\* overlay unchanged, marks no inode unlinked and calls neither
\* childMaterialized nor childDematerialized; inode numbers may be
\* assigned, inodes loaded and conflicts reported.
C15_DryRunMutatesNothing ==
  [][\A t \in Threads :
       DryRunStep(t) =>
         /\ \A i \in DOMAIN dirs :
              /\ i \in DOMAIN dirs'
              /\ dirs'[i].treeHash = dirs[i].treeHash
              /\ DOMAIN dirs'[i].entries = DOMAIN dirs[i].entries
              /\ \A n \in DOMAIN dirs[i].entries :
                   /\ dirs'[i].entries[n].mode = dirs[i].entries[n].mode
                   /\ dirs'[i].entries[n].hash = dirs[i].entries[n].hash
         /\ overlay' = overlay
         /\ \A i \in DOMAIN loc : i \in DOMAIN loc' /\ loc'[i].unlinked = loc[i].unlinked
         /\ th'[t].pc \notin {"ch", "co_demat", "mat", "tr_lock"}]_vars

\* A dry-run checkout of a modified mount has walked the root and a loaded
\* directory under it, has reported a conflict, and is about to return.
C15_Witness ==
  \E t \in Threads :
    /\ th[t].op = "checkout" /\ th[t].ctx.dryRun
    /\ th[t].pc = "co_rmdata" /\ Len(th[t].co) = 1
    /\ th[t].ctx.conflicts # {}
    /\ th[t].co[1].actions # <<>>
    /\ DirIsMaterialized(dirs[kRootNodeId])

\* Thread t takes the step of checkout that runs computeCheckoutActions,
\* and the walk over the entries of the two trees is made.
Walks(t) ==
  LET f == th[t].co[1] IN
  /\ th[t].pc = "co_compute" /\ th'[t].pc = "co_finish"
  /\ ~(dirs[f.dir].treeHash # None
       /\ canShortCircuitCheckout(th[t].ctx, dirs[f.dir].treeHash, f.from, f.to))
\* The names the walk of thread t calls processCheckoutEntry for.
WalkedNames(t) ==
  DOMAIN ScmEntries(th[t].co[1].from) \cup DOMAIN ScmEntries(th[t].co[1].to)
\* The conflicts the step reports for name n of the walked directory.
NewConflicts(t, n) ==
  {c \in th'[t].ctx.conflicts \ th[t].ctx.conflicts : c[2] = th[t].co[1].dir /\ c[3] = n}
\* The CheckoutActions the step returns for name n.
NewActions(t, n) ==
  {k \in DOMAIN th'[t].co[1].actions : th'[t].co[1].actions[k].name = n}

\* C16: for a name with no local entry, processCheckoutEntry with old
\* absent adds an entry of new's mode and hash, not loaded and without
\* inode number, and reports nothing (adds nothing in a dry run); with new
\* absent it reports MissingRemoved alone and adds nothing; with old and
\* new present and different it reports RemovedModified alone and adds the
\* entry of new exactly in force mode.  No CheckoutAction is returned.
C16_MissingEntryClassified ==
  [][\A t \in Threads :
       Walks(t) =>
         LET f == th[t].co[1]
             d == f.dir
             ctx == th[t].ctx
         IN
         \A n \in WalkedNames(t) \ DOMAIN dirs[d].entries :
           LET old == ScmEntry(f.from, n)
               new == ScmEntry(f.to, n)
               added == /\ n \in DOMAIN dirs'[d].entries
                        /\ dirs'[d].entries[n] =
                             [mode |-> IF new.type = "tree" THEN "dir" ELSE "reg",
                              hash |-> new.hash, ino |-> 0, loaded |-> FALSE]
               absent == n \notin DOMAIN dirs'[d].entries
           IN
           /\ NewActions(t, n) = {}
           /\ old = NoScm =>
                NewConflicts(t, n) = {} /\ (IF ctx.dryRun THEN absent ELSE added)
           /\ new = NoScm =>
                NewConflicts(t, n) = {<<"MISSING_REMOVED", d, n>>} /\ absent
           /\ (old # NoScm /\ new # NoScm /\ old # new) =>
                /\ NewConflicts(t, n) = {<<"REMOVED_MODIFIED", d, n>>}
                /\ IF ctx.force THEN added ELSE absent]_vars

\* A force checkout from R1 to R2 of a mount whose file a was removed has
\* reported RemovedModified for a and added the entry of R2's a.
C16_Witness ==
  \E t \in Threads :
    /\ th[t].op = "checkout" /\ th[t].pc = "co_finish" /\ th[t].ctx.force
    /\ th[t].co[1].dir = kRootNodeId /\ th[t].co[1].from = "R1" /\ th[t].co[1].to = "R2"
    /\ <<"REMOVED_MODIFIED", kRootNodeId, "a">> \in th[t].ctx.conflicts
    /\ Present(kRootNodeId, "a") /\ dirs[kRootNodeId].entries["a"].hash = "b2"
    /\ ~dirs[kRootNodeId].entries["a"].loaded

\* The names the walk of thread t meets as a local file entry that is not
\* loaded and has no inode number.
UnloadedFiles(t) ==
  {n \in WalkedNames(t) \cap DOMAIN dirs[th[t].co[1].dir].entries :
     LET e == dirs[th[t].co[1].dir].entries[n] IN
     ~e.loaded /\ ~hasInodeNumber(e) /\ ~isDirectory(e)}
\* The step leaves the entry of n as it is.
EntryKept(d, n) ==
  /\ n \in DOMAIN dirs'[d].entries
  /\ dirs'[d].entries[n].mode = dirs[d].entries[n].mode
  /\ dirs'[d].entries[n].hash = dirs[d].entries[n].hash
\* The step sets the entry of n to new's mode and hash, or erases it when
\* new is absent.
EntrySet(d, n, new) ==
  IF new = NoScm THEN n \notin DOMAIN dirs'[d].entries
  ELSE /\ n \in DOMAIN dirs'[d].entries
       /\ dirs'[d].entries[n].mode = modeFromTreeEntryType(new.type)
       /\ dirs'[d].entries[n].hash = new.hash
\* The conflict type of an entry against old, or "none".
ConflictOf(e, old) ==
  IF old = NoScm THEN "UNTRACKED_ADDED"
  ELSE IF e.hash # old.hash THEN "MODIFIED_MODIFIED" ELSE "none"

\* C17 as stated: for an unloaded file entry without inode number, an
\* absent old or a hash that differs from old's is reported as exactly one
\* conflict, the entry kept by a non-force checkout and set to new (or
\* erased) by a force checkout; with the hash equal to old's nothing is
\* reported and the entry is set to new (or erased).
C17_ConflictAlwaysReported ==
  [][\A t \in Threads :
       Walks(t) =>
         LET f == th[t].co[1]
             d == f.dir
         IN
         \A n \in UnloadedFiles(t) :
           LET old == ScmEntry(f.from, n)
               new == ScmEntry(f.to, n)
               c == ConflictOf(dirs[d].entries[n], old)
           IN
           IF c # "none"
           THEN /\ NewConflicts(t, n) = {<<c, d, n>>}
                /\ IF th[t].ctx.force THEN EntrySet(d, n, new) ELSE EntryKept(d, n)
           ELSE NewConflicts(t, n) = {} /\ EntrySet(d, n, new)]_vars

\* C17: for an unloaded file entry without inode number, a non-force
\* checkout passes over a name whose old and new source-control entries
\* are identical: nothing is reported and the entry is kept.  Otherwise an
\* absent old or a hash that differs from old's is reported as exactly one
\* conflict, the entry kept by a non-force checkout and set to new (or
\* erased) by a force checkout; with the hash equal to old's nothing is
\* reported and the entry is set to new (or erased), except in a dry run,
\* which keeps it.
C17_NonForceKeepsConflicting ==
  [][\A t \in Threads :
       Walks(t) =>
         LET f == th[t].co[1]
             d == f.dir
             ctx == th[t].ctx
         IN
         \A n \in UnloadedFiles(t) :
           LET old == ScmEntry(f.from, n)
               new == ScmEntry(f.to, n)
               c == ConflictOf(dirs[d].entries[n], old)
           IN
           IF ~ctx.force /\ old # NoScm /\ old = new
           THEN NewConflicts(t, n) = {} /\ EntryKept(d, n)
           ELSE IF c # "none"
           THEN /\ NewConflicts(t, n) = {<<c, d, n>>}
                /\ IF ctx.force THEN EntrySet(d, n, new) ELSE EntryKept(d, n)
           ELSE /\ NewConflicts(t, n) = {}
                /\ IF ctx.dryRun THEN EntryKept(d, n) ELSE EntrySet(d, n, new)]_vars

\* A checkout from R1 to R2, not forced, of a mount whose entry of a has
\* the hash of blob b2 has reported ModifiedModified for a and kept the
\* entry.
C17_Witness ==
  \E t \in Threads :
    /\ th[t].op = "checkout" /\ th[t].pc = "co_finish"
    /\ ~th[t].ctx.force /\ ~th[t].ctx.dryRun
    /\ th[t].co[1].dir = kRootNodeId /\ th[t].co[1].from = "R1" /\ th[t].co[1].to = "R2"
    /\ <<"MODIFIED_MODIFIED", kRootNodeId, "a">> \in th[t].ctx.conflicts
    /\ Present(kRootNodeId, "a") /\ dirs[kRootNodeId].entries["a"].hash = "b2"
    /\ dirs[kRootNodeId].entries["a"].ino = 0

(***************************************************************************)
(* Checkouts there and back on an unmodified mount: the root is not        *)
(* materialized and has the tree of the current commit, no call is a dry   *)
(* run, and the object store answers every load.                           *)
(***************************************************************************)
InitRoundTrip ==
  /\ InitCheckout
  /\ dirs[kRootNodeId].treeHash = th["t1"].snapshot

NextRoundTrip ==
  \/ \E to \in {"R1", "R2", "S1", "S3"} : \E force \in BOOLEAN :
       StartCheckout("t1", to, force, FALSE)
  \/ \E t \in Threads : CheckoutSteps(t)
  \/ \E t \in Threads : Materialize(t)
  \/ \E t \in Threads : TryRemoveLocked(t)
  \/ \E t \in Threads : TryRemoveCheck(t)
  \/ \E k \in DOMAIN futs : InodeLoadComplete(k)
  \/ DestroyUnlinked

SpecRoundTrip == InitRoundTrip /\ [][NextRoundTrip]_vars

\* The source-control tree at the place of the linked directory inode i in
\* a working copy of commit root, or None where the commit has no tree.
RECURSIVE TreeAt(_, _)
TreeAt(i, root) ==
  IF i = kRootNodeId THEN root
  ELSE LET up == TreeAt(loc[i].parent, root)
           e == ScmEntry(up, loc[i].name)
       IN IF e # NoScm /\ e.type = "tree" THEN e.hash ELSE None
\* The listing has the names, modes and hashes of the tree.
SameAsTree(dir, tree) ==
  /\ DOMAIN dir.entries = DOMAIN ScmEntries(tree)
  /\ \A n \in DOMAIN dir.entries :
       /\ dir.entries[n].mode = modeFromTreeEntryType(ScmEntries(tree)[n].type)
       /\ dir.entries[n].hash = ScmEntries(tree)[n].hash
\* The directory inodes that are in the working copy.
LinkedTrees == {i \in DOMAIN dirs : i \in DOMAIN loc /\ ~isUnlinked(i)}

\* C18: on an unmodified mount of commit R1, no checkout of the chain
\* reports a conflict, and after checkout(R1, to) followed by
\* checkout(to, R1) every directory has the names, modes and hashes of its
\* tree in R1, the root is unmaterialized with the hash of R1 and the
\* overlay holds no data for the root.
C18_CheckoutRoundTrip ==
  \A t \in Threads :
    (th[t].pc = "idle" /\ th[t].done >= 1) =>
      /\ th[t].ctx.conflicts = {}
      /\ (th[t].done = 2 /\ th[t].snapshot = "R1") =>
            /\ \A i \in LinkedTrees : SameAsTree(dirs[i], TreeAt(i, "R1"))
            /\ dirs[kRootNodeId].treeHash = "R1"
            /\ kRootNodeId \notin DOMAIN overlay

\* Both checkouts have returned, the first to a commit other than R1 that
\* took the loaded directory d out of the working copy, and the mount is
\* back at R1.
C18_Witness ==
  /\ th["t1"].pc = "idle" /\ th["t1"].done = 2 /\ th["t1"].snapshot = "R1"
  /\ th["t1"].ctx.conflicts = {}
  /\ 2 \in DOMAIN loc /\ isUnlinked(2)
  /\ Present(kRootNodeId, "d") /\ dirs[kRootNodeId].entries["d"].hash = "D1"
  /\ dirs[kRootNodeId].treeHash = "R1"

(***************************************************************************)
(* Diff: the working copy against a source-control tree.  The callbacks    *)
(* the DiffContext has received are a set of <<kind, path>>; a path is the *)
(* sequence of names from the root.                                        *)
(***************************************************************************)
kIgnoreFilename == ".gitignore"
\* The rules of a non-empty ignore file of the mount: the names excluded.
GitIgnoreRules == {"b"}
\* GitIgnoreStack::match for a name under the rules of the stack.
match(ignore, n) ==
  IF n = kDotEdenName THEN "HIDDEN" ELSE IF n \in ignore THEN "EXCLUDE" ELSE "NO_MATCH"

\* One TreeInode::diff call in progress: the directory, its path, the tree
\* it is compared to, the ignore stack (the parent's until the directory's
\* own rules are added), the ignore file's inode and the bytes read from
\* it, the deferred entries and the one being run, and the names the merge
\* walk has handled, in order, each with the way it was handled.
DiffFrame(d, path, tree, parentIgnore, isIgnored) ==
  [dir |-> d, path |-> path, tree |-> tree, ignore |-> parentIgnore,
   isIgnored |-> isIgnored, gi |-> 0, read |-> "", deferred |-> <<>>, idx |-> 1,
   seen |-> <<>>, failed |-> FALSE]

\* A DeferredDiffEntry: removed (a source-control tree), untracked (a
\* directory inode), modified (an inode against a source-control entry) or
\* modifiedHash (a blob hash against a source-control entry).
DeferredDiffEntry(kind, n, scm, ino, wait, ignored) ==
  [kind |-> kind, name |-> n, scm |-> scm, ino |-> ino, wait |-> wait, ignored |-> ignored]

\* The call of one callback of the DiffContext.
Emit(acc, kind, p) == [acc EXCEPT !.cb = @ \cup {<<kind, p>>}]
Defer(acc, job) == [acc EXCEPT !.deferred = Append(@, job)]
\* loadChildLocked for entry n and a deferred entry on the inode's future.
DeferLoad(acc, t, d, n, kind, scm, ignored) ==
  LET e == acc.w.dirs[d].entries[n]
      i == IF hasInodeNumber(e) THEN e.ino ELSE acc.w.nextIno
  IN Defer([acc EXCEPT !.w = loadChildLocked(acc.w, t, d, n)],
           DeferredDiffEntry(kind, n, scm, i, TRUE, ignored))

\* computeDiff: processUntracked on the accumulator
\* acc = [w: the world, cb, deferred, seen]; a is the call's arguments.
processUntracked(acc, t, a, n) ==
  LET e == acc.w.dirs[a.dir].entries[n]
      ignoreStatus == match(a.ignore, n)
      entryIgnored == IF a.isIgnored THEN TRUE ELSE ignoreStatus = "EXCLUDE"
      p == a.path \o <<n>>
  IN
  IF ~a.isIgnored /\ ignoreStatus = "HIDDEN" THEN acc
  ELSE IF isDirectory(e)
  THEN IF ~entryIgnored \/ a.listIgnored
       THEN IF e.loaded
            THEN Defer(acc, DeferredDiffEntry("untracked", n, NoScm, e.ino, FALSE, entryIgnored))
            ELSE DeferLoad(acc, t, a.dir, n, "untracked", NoScm, entryIgnored)
       ELSE acc
  ELSE IF ~entryIgnored THEN Emit(acc, "untrackedFile", p)
  ELSE IF a.listIgnored THEN Emit(acc, "ignoredFile", p)
  ELSE acc

\* computeDiff: processRemoved
processRemoved(acc, a, n, scmEntry) ==
  IF scmEntry.type = "tree"
  THEN Defer(acc, DeferredDiffEntry("removed", n, scmEntry, 0, FALSE, FALSE))
  ELSE Emit(acc, "removedFile", a.path \o <<n>>)

\* A processBothPresent without the fast path for an unchanged entry.
processBothPresentNoSkip(acc, t, a, n, scmEntry) ==
  LET e == acc.w.dirs[a.dir].entries[n] IN
  IF e.loaded
  THEN Defer(acc, DeferredDiffEntry("modified", n, scmEntry, e.ino, FALSE, a.isIgnored))
  ELSE Defer(acc, DeferredDiffEntry("modifiedHash", n, scmEntry, 0, FALSE, FALSE))

\* computeDiff: processBothPresent
processBothPresent(acc, t, a, n, scmEntry) ==
  LET e == acc.w.dirs[a.dir].entries[n]
      p == a.path \o <<n>>
      entryIgnored ==
        IF ~a.isIgnored /\ (isDirectory(e) \/ scmEntry.type = "tree")
        THEN match(a.ignore, n) \in {"HIDDEN", "EXCLUDE"}
        ELSE a.isIgnored
  IN
  IF e.loaded
  THEN Defer(acc, DeferredDiffEntry("modified", n, scmEntry, e.ino, FALSE, entryIgnored))
  ELSE IF isMaterialized(e)
  THEN DeferLoad(acc, t, a.dir, n, "modified", scmEntry, entryIgnored)
  ELSE IF e.mode = modeFromTreeEntryType(scmEntry.type) /\ e.hash = scmEntry.hash
  THEN acc
  ELSE IF isDirectory(e)
  THEN DeferLoad(acc, t, a.dir, n, "modified", scmEntry, entryIgnored)
  ELSE IF scmEntry.type = "tree"
  THEN Defer(IF entryIgnored
             THEN (IF a.listIgnored THEN Emit(acc, "ignoredFile", p) ELSE acc)
             ELSE Emit(acc, "untrackedFile", p),
             DeferredDiffEntry("removed", n, scmEntry, 0, FALSE, FALSE))
  ELSE IF e.mode # modeFromTreeEntryType(scmEntry.type)
  THEN Emit(acc, "modifiedFile", p)
  ELSE Defer(acc, DeferredDiffEntry("modifiedHash", n, scmEntry, 0, FALSE, FALSE))

\* The walk has handled name n in the way how.
Seen(acc, n, how) == [acc EXCEPT !.seen = Append(@, <<n, how>>)]

RECURSIVE DiffWalk(_, _, _, _, _, _, _)
\* computeDiff's merge walk over the source-control names scEntries from
\* index scIdx and the directory's names inodeEntries from index inodeIter,
\* both in sorted order.
DiffWalk(acc, t, a, scEntries, inodeEntries, scIdx, inodeIter) ==
  LET untracked == DiffWalk(Seen(processUntracked(acc, t, a, inodeEntries[inodeIter]),
                                 inodeEntries[inodeIter], "untracked"),
                            t, a, scEntries, inodeEntries, scIdx, inodeIter + 1)
      removed == DiffWalk(Seen(processRemoved(acc, a, scEntries[scIdx],
                                              ScmEntries(a.tree)[scEntries[scIdx]]),
                               scEntries[scIdx], "removed"),
                          t, a, scEntries, inodeEntries, scIdx + 1, inodeIter)
      both == DiffWalk(Seen(processBothPresent(acc, t, a, scEntries[scIdx],
                                               ScmEntries(a.tree)[scEntries[scIdx]]),
                            scEntries[scIdx], "both"),
                       t, a, scEntries, inodeEntries, scIdx + 1, inodeIter + 1)
  IN
  IF scIdx > Len(scEntries)
  THEN (IF inodeIter > Len(inodeEntries) THEN acc ELSE untracked)
  ELSE IF inodeIter > Len(inodeEntries) THEN removed
  ELSE IF Rank(scEntries[scIdx]) < Rank(inodeEntries[inodeIter]) THEN removed
  ELSE IF Rank(scEntries[scIdx]) > Rank(inodeEntries[inodeIter]) THEN untracked
  ELSE both

\* TreeInode::computeDiff under the contents_ lock: the accumulator after
\* the merge walk of directory d against tree with the ignore stack ignore.
computeDiff(t, ctx, d, path, tree, ignore, isIgnored) ==
  DiffWalk([w |-> World, cb |-> ctx.cb, deferred |-> <<>>, seen |-> <<>>], t,
           [dir |-> d, path |-> path, tree |-> tree, ignore |-> ignore,
            isIgnored |-> isIgnored, listIgnored |-> ctx.listIgnored],
           SortedNames(DOMAIN ScmEntries(tree)), SortedNames(DOMAIN dirs[d].entries), 1, 1)

\* The step takes the result of computeDiff on the innermost call of
\* thread record r, with the ignore stack ignore, and goes on to finish
\* the loads it started.
ComputeDiffStep(t, r, ignore) ==
  LET f == r.df[1]
      acc == computeDiff(t, r.dctx, f.dir, f.path, f.tree, ignore, f.isIgnored)
  IN
  /\ acc.w.nextIno <= MaxIno + 1
  /\ dirs' = acc.w.dirs
  /\ nextIno' = acc.w.nextIno
  /\ loads' = acc.w.loads
  /\ futs' = acc.w.futs
  /\ th' = Upd(t, [r EXCEPT !.pc = "df_finish", !.dctx.cb = acc.cb,
                            !.df[1].ignore = ignore, !.df[1].deferred = acc.deferred,
                            !.df[1].seen = acc.seen])

\* EdenMount::diff: a diff of the root against tree.
StartDiff(t, tree, listIgnored) ==
  /\ CanStart(t)
  /\ th' = Upd(t, [th[t] EXCEPT !.op = "diff", !.pc = "df_enter",
                     !.dctx = [listIgnored |-> listIgnored, cb |-> {}],
                     !.df = <<DiffFrame(kRootNodeId, <<>>, tree, {}, FALSE)>>])
  /\ UNCHANGED <<dirs, loc, overlay, nextIno, journal, renameLock, clock, loads, futs, dotEden, fuseRefs, requests, channel>>

\* TreeInode::diff under the contents_ lock: return at once from a
\* directory identical to the tree; go straight to computeDiff when the
\* directory is ignored or has no ignore file; else get the ignore file's
\* inode, loading it when it is not in memory.
Diff(t) ==
  LET r == th[t]
      f == r.df[1]
      d == f.dir
      contents == dirs[d]
      hasIgnoreFile == kIgnoreFilename \in DOMAIN contents.entries
                       /\ ~isDirectory(contents.entries[kIgnoreFilename])
  IN
  /\ r.pc = "df_enter"
  /\ Free(d)
  /\ UNCHANGED <<loc, overlay, journal, renameLock, clock, dotEden, fuseRefs, requests, channel>>
  /\ IF ~DirIsMaterialized(contents) /\ f.tree # None /\ contents.treeHash = f.tree
     THEN /\ th' = Upd(t, [r EXCEPT !.pc = "df_done"])
          /\ UNCHANGED <<dirs, nextIno, loads, futs>>
     ELSE IF f.isIgnored \/ ~hasIgnoreFile
     THEN ComputeDiffStep(t, r, f.ignore)
     ELSE LET e == contents.entries[kIgnoreFilename] IN
          IF e.loaded
          THEN /\ th' = Upd(t, [r EXCEPT !.pc = "df_ignore", !.df[1].gi = e.ino])
               /\ UNCHANGED <<dirs, nextIno, loads, futs>>
          ELSE LET w == loadChildLocked(World, t, d, kIgnoreFilename) IN
               /\ w.nextIno <= MaxIno + 1
               /\ dirs' = w.dirs
               /\ nextIno' = w.nextIno
               /\ loads' = w.loads
               /\ futs' = w.futs
               /\ th' = Upd(t, [r EXCEPT !.pc = "df_gifinish",
                                  !.df[1].gi = w.dirs[d].entries[kIgnoreFilename].ino])

\* diff: IncompleteInodeLoad::finish() for the load of the ignore file.
DiffFinishIgnoreLoad(t) ==
  /\ th[t].pc = "df_gifinish"
  /\ futs' = registerInodeLoadComplete(futs, t)
  /\ th' = Upd(t, [th[t] EXCEPT !.pc = "df_giwait"])
  /\ UNCHANGED <<dirs, loc, overlay, nextIno, journal, renameLock, clock, loads, dotEden, fuseRefs, requests, channel>>

\* diff: the future of the ignore file's inode completes; a failed load
\* fails this diff call.
DiffIgnoreLoaded(t) ==
  LET r == th[t]
      f == r.df[1]
      seen == [r EXCEPT !.got = Remove(@, f.gi)]
  IN
  /\ r.pc = "df_giwait"
  /\ f.gi \in DOMAIN r.got
  /\ th' = Upd(t, IF r.got[f.gi] = "ok" THEN [seen EXCEPT !.pc = "df_ignore"]
                  ELSE [seen EXCEPT !.pc = "df_done", !.df[1].failed = TRUE])
  /\ UNCHANGED <<dirs, loc, overlay, nextIno, journal, renameLock, clock, loads, futs, dotEden, fuseRefs, requests, channel>>

\* TreeInode::loadGitIgnoreThenDiff for a file inode: readAll() gives the
\* file's rules, no bytes, or an error that onError turns into no bytes;
\* computeDiff is called when there are bytes, and the call returns
\* without it otherwise.  A directory inode goes to computeDiff without
\* rules.
LoadGitIgnoreThenDiff(t) ==
  LET r == th[t]
      f == r.df[1]
  IN
  /\ r.pc = "df_ignore"
  /\ UNCHANGED <<loc, overlay, journal, renameLock, clock, dotEden, fuseRefs, requests, channel>>
  /\ IF isTree(f.gi)
     THEN /\ Free(f.dir)
          /\ ComputeDiffStep(t, r, f.ignore)
     ELSE \E read \in {"rules", "empty", "error"} :
            LET ignoreFileContents == IF read = "rules" THEN GitIgnoreRules ELSE {}
                r1 == [r EXCEPT !.df[1].read = read]
            IN
            IF ignoreFileContents # {}
            THEN /\ Free(f.dir)
                 /\ ComputeDiffStep(t, r1, f.ignore \cup ignoreFileContents)
            ELSE /\ th' = Upd(t, [r1 EXCEPT !.pc = "df_done"])
                 /\ UNCHANGED <<dirs, nextIno, loads, futs>>

\* computeDiff: IncompleteInodeLoad::finish() for each pending load.
DiffFinishLoads(t) ==
  /\ th[t].pc = "df_finish"
  /\ futs' = registerInodeLoadComplete(futs, t)
  /\ th' = Upd(t, [th[t] EXCEPT !.pc = "df_run"])
  /\ UNCHANGED <<dirs, loc, overlay, nextIno, journal, renameLock, clock, loads, dotEden, fuseRefs, requests, channel>>

RECURSIVE RemovedFiles(_, _)
\* The removedFile callbacks for the files of a source-control entry: the
\* file itself, or every file below the tree.
RemovedFiles(p, scmEntry) ==
  IF scmEntry.type # "tree" THEN {<<"removedFile", p>>}
  ELSE UNION {RemovedFiles(p \o <<n>>, TreeEntries(scmEntry.hash)[n]) :
                n \in DOMAIN TreeEntries(scmEntry.hash)}

\* The thread record with the current deferred entry of its innermost diff
\* call done.
NextDeferred(r) == [r EXCEPT !.df[1].idx = @ + 1, !.pc = "df_run"]

\* A failed deferred entry that fails the whole diff call and leaves the
\* entries after it undone.
diffErrorAborts(r, p) == [r EXCEPT !.pc = "df_done", !.df[1].failed = TRUE]
\* computeDiff's continuation for a deferred entry whose future holds an
\* exception: diffError() with the entry's path; the other entries go on.
diffError(r, p) == NextDeferred([r EXCEPT !.dctx.cb = @ \cup {<<"diffError", p>>}])

\* computeDiff: run the next deferred entry once its inode is there, or,
\* with every entry done, complete the call.  A removed tree reports its
\* files; a blob is compared by hash; a directory inode is diffed in turn;
\* a file inode is compared to the source-control entry, and the contents
\* of a materialized file decide.  The object store may fail to give the
\* trees of a removed entry.
DiffRunDeferred(t) ==
  LET r == th[t]
      f == r.df[1]
  IN
  /\ r.pc = "df_run"
  /\ UNCHANGED <<dirs, loc, overlay, nextIno, journal, renameLock, clock, loads, futs, dotEden, fuseRefs, requests, channel>>
  /\ IF f.idx > Len(f.deferred)
     THEN th' = Upd(t, [r EXCEPT !.pc = "df_done"])
     ELSE LET job == f.deferred[f.idx]
              p == f.path \o <<job.name>>
              seen == [r EXCEPT !.got = [i \in DOMAIN r.got \ {job.ino} |-> r.got[i]]]
              child(tree) == [seen EXCEPT
                                !.pc = "df_enter",
                                !.df = <<DiffFrame(job.ino, p, tree, f.ignore, job.ignored)>> \o @]
              asUntracked == IF job.ignored
                             THEN (IF r.dctx.listIgnored THEN {<<"ignoredFile", p>>} ELSE {})
                             ELSE {<<"untrackedFile", p>>}
          IN
          /\ job.wait => job.ino \in DOMAIN r.got
          /\ IF job.wait /\ r.got[job.ino] = "err"
             THEN th' = Upd(t, diffError(seen, p))
             ELSE IF job.kind = "removed"
             THEN \E fetched \in BOOLEAN :
                    IF fetched
                    THEN th' = Upd(t, NextDeferred([r EXCEPT !.dctx.cb = @ \cup RemovedFiles(p, job.scm)]))
                    ELSE th' = Upd(t, diffError(r, p))
             ELSE IF job.kind = "modifiedHash"
             THEN th' = Upd(t, NextDeferred([r EXCEPT !.dctx.cb = @ \cup {<<"modifiedFile", p>>}]))
             ELSE IF job.kind = "untracked"
             THEN th' = Upd(t, child(None))
             ELSE IF isTree(job.ino)
             THEN IF job.scm.type = "tree"
                  THEN th' = Upd(t, child(job.scm.hash))
                  ELSE th' = Upd(t, [child(None) EXCEPT !.dctx.cb = @ \cup {<<"removedFile", p>>}])
             ELSE IF job.scm.type = "tree"
             THEN th' = Upd(t, NextDeferred([seen EXCEPT
                                               !.dctx.cb = @ \cup asUntracked
                                                             \cup RemovedFiles(p, job.scm)]))
             ELSE \E sameContents \in BOOLEAN :
                    LET e == dirs[f.dir].entries[job.name]
                        isSameAs == IF ~Present(f.dir, job.name) THEN FALSE
                                    ELSE IF isMaterialized(e)
                                    THEN sameContents
                                         /\ e.mode = modeFromTreeEntryType(job.scm.type)
                                    ELSE e.hash = job.scm.hash
                                         /\ e.mode = modeFromTreeEntryType(job.scm.type)
                    IN th' = Upd(t, NextDeferred(
                                      IF isSameAs THEN seen
                                      ELSE [seen EXCEPT !.dctx.cb = @ \cup {<<"modifiedFile", p>>}]))

\* The future of the innermost diff call completes: the deferred entry of
\* the caller that ran it is done, with a diffError callback when the call
\* failed; the root's call ends the operation.
DiffReturn(t) ==
  LET r == th[t]
      f == r.df[1]
      rest == Tail(r.df)
  IN
  /\ r.pc = "df_done"
  /\ IF rest = <<>>
     THEN th' = Upd(t, [Finish(t, IF f.failed THEN "EIO" ELSE "ok") EXCEPT !.dctx = r.dctx])
     ELSE IF f.failed THEN th' = Upd(t, diffError([r EXCEPT !.df = rest], f.path))
     ELSE th' = Upd(t, NextDeferred([r EXCEPT !.df = rest]))
  /\ UNCHANGED <<dirs, loc, overlay, nextIno, journal, renameLock, clock, loads, futs, dotEden, fuseRefs, requests, channel>>

DiffSteps(t) ==
  \/ Diff(t)
  \/ DiffFinishIgnoreLoad(t)
  \/ DiffIgnoreLoaded(t)
  \/ LoadGitIgnoreThenDiff(t)
  \/ DiffFinishLoads(t)
  \/ DiffRunDeferred(t)
  \/ DiffReturn(t)

(***************************************************************************)
(* Diff on a mount: one thread diffs the working copy against a commit,    *)
(* with or without the ignored files listed.  The mounts are               *)
(*   1  commit R1, nothing modified or loaded;                             *)
(*   2  commit R1 with an ignore file (loaded), the untracked file b, the  *)
(*      untracked directory f holding the file c, d loaded, e removed;     *)
(*   3  as 2 with the ignore file and d not loaded;                        *)
(*   4  commit R1 with a directory named .gitignore and the untracked      *)
(*      file b.                                                            *)
(***************************************************************************)
DiffMounts == 1..4
DiffUntrackedDir ==
  [entries |-> ("c" :> EntryFromIno("reg", 6)), treeHash |-> None]
DiffRoot(k) ==
  LET file(i, l) == [EntryFromIno("reg", i) EXCEPT !.loaded = l] IN
  IF k = 1 THEN buildDirFromTree("R1")
  ELSE IF k = 4
  THEN [entries |-> (kIgnoreFilename :> EntryFromHash("dir", "TE"))
                    @@ ("b" :> file(3, FALSE))
                    @@ buildDirFromTree("R1").entries,
        treeHash |-> None]
  ELSE [entries |-> (kIgnoreFilename :> file(2, k = 2))
                    @@ ("a" :> EntryFromHash("reg", "b1"))
                    @@ ("b" :> file(3, FALSE))
                    @@ ("d" :> IF k = 2
                               THEN [mode |-> "dir", hash |-> "D1", ino |-> 4, loaded |-> TRUE]
                               ELSE EntryFromHash("dir", "D1"))
                    @@ ("f" :> EntryFromIno("dir", 5)),
        treeHash |-> None]

InitDiff ==
  \E k \in DiffMounts :
    LET at(i, n) == (i :> [parent |-> kRootNodeId, name |-> n, unlinked |-> FALSE]) IN
    /\ dirs = (kRootNodeId :> DiffRoot(k))
              @@ (IF k = 2 THEN (4 :> buildDirFromTree("D1")) ELSE <<>>)
    /\ loc = (kRootNodeId :> RootLoc)
             @@ (IF k = 2 THEN at(2, kIgnoreFilename) @@ at(4, "d") ELSE <<>>)
    /\ overlay = IF k = 1 THEN <<>>
                 ELSE IF k = 4
                 THEN createOverlayFile(saveOverlayDir(<<>>, kRootNodeId, DiffRoot(k)), 3)
                 ELSE createOverlayFile(createOverlayFile(createOverlayFile(
                        saveOverlayDir(saveOverlayDir(<<>>, kRootNodeId, DiffRoot(k)),
                                       5, DiffUntrackedDir), 2), 3), 6)
    /\ nextIno = IF k = 1 THEN 2 ELSE IF k = 4 THEN 4 ELSE 7
    /\ journal = <<>>
    /\ renameLock = NoThread
    /\ clock = <<>>
    /\ loads = <<>>
    /\ futs = <<>>
    /\ dotEden = 0
    /\ fuseRefs = <<>>
    /\ requests = <<>>
    /\ channel = <<>>
    /\ th = [t \in Threads |-> IdleThread]

NextDiff ==
  \/ \E tree \in {"R1", "R2", "X1", "X2"} : \E listIgnored \in BOOLEAN :
       StartDiff("t1", tree, listIgnored)
  \/ \E t \in Threads : DiffSteps(t)
  \/ \E k \in DOMAIN futs : InodeLoadComplete(k)
  \/ \E k \in DOMAIN futs : InodeLoadError(k)

SpecDiff == InitDiff /\ [][NextDiff]_vars

\* The step is thread t's merge walk of the directory of its innermost
\* diff call.
ComputesDiff(t) ==
  th[t].pc \in {"df_enter", "df_ignore"} /\ th'[t].pc = "df_finish"
\* The callbacks of the step for the path p, and its deferred entries for
\* the name n.
NewCallbacks(t, p) == {c \in th'[t].dctx.cb \ th[t].dctx.cb : c[2] = p}
NewDeferred(t, n) ==
  {k \in DOMAIN th'[t].df[1].deferred : th'[t].df[1].deferred[k].name = n}
\* The way the merge walk has to handle name n of the directory listing
\* entries against the source-control entries scm.
WalkClass(n, scm, entries) ==
  IF n \notin DOMAIN scm THEN "untracked"
  ELSE IF n \notin DOMAIN entries THEN "removed"
  ELSE "both"
\* The walk handles each name of the union once, in order, in the way of
\* its class; a removed tree becomes a deferred entry and a removed file a
\* callback; an unloaded unmaterialized entry equal to the source-control
\* entry gives neither callback nor deferred entry.
WalkClassifies(t) ==
  LET f == th[t].df[1]
      entries == dirs[f.dir].entries
      scm == ScmEntries(f.tree)
      union == SortedNames(DOMAIN scm \cup DOMAIN entries)
      seen == th'[t].df[1].seen
  IN
  /\ Len(seen) = Len(union)
  /\ \A k \in 1..Len(union) :
       seen[k] = <<union[k], WalkClass(union[k], scm, entries)>>
  /\ \A n \in DOMAIN scm \ DOMAIN entries :
       IF scm[n].type = "tree"
       THEN /\ NewCallbacks(t, f.path \o <<n>>) = {}
            /\ \E k \in NewDeferred(t, n) : th'[t].df[1].deferred[k].kind = "removed"
       ELSE /\ NewCallbacks(t, f.path \o <<n>>) = {<<"removedFile", f.path \o <<n>>>>}
            /\ NewDeferred(t, n) = {}
  /\ \A n \in DOMAIN scm \cap DOMAIN entries :
       (/\ ~entries[n].loaded /\ ~isMaterialized(entries[n])
        /\ entries[n].mode = modeFromTreeEntryType(scm[n].type)
        /\ entries[n].hash = scm[n].hash)
       => NewCallbacks(t, f.path \o <<n>>) = {} /\ NewDeferred(t, n) = {}
\* The names in both lists whose entry is an unloaded unmaterialized file
\* of another mode than the source-control entry.
ModeChanged(t) ==
  LET f == th[t].df[1]
      entries == dirs[f.dir].entries
      scm == ScmEntries(f.tree)
  IN {n \in DOMAIN scm \cap DOMAIN entries :
        /\ ~entries[n].loaded /\ ~isMaterialized(entries[n]) /\ ~isDirectory(entries[n])
        /\ entries[n].mode # modeFromTreeEntryType(scm[n].type)}
\* A diff call on an unmaterialized directory with the hash of the tree
\* returns with no callback and no deferred entry.
DiffPrunes(t) ==
  LET f == th[t].df[1] IN
  (/\ th[t].pc = "df_enter" /\ th'[t].pc # "df_enter"
   /\ ~DirIsMaterialized(dirs[f.dir]) /\ f.tree # None /\ dirs[f.dir].treeHash = f.tree)
  => /\ th'[t].pc = "df_done"
     /\ th'[t].dctx.cb = th[t].dctx.cb
     /\ th'[t].df[1].deferred = <<>> /\ th'[t].df[1].seen = <<>>
     /\ dirs' = dirs

\* C19 as stated: the merge walk handles every name of the union once, a
\* name only in the directory as untracked, a name only in source control
\* as removed (a tree as a deferred entry), a name in both by comparison;
\* an unloaded unmaterialized entry of equal mode and hash gives no
\* callback, and every unloaded unmaterialized file of another mode gives
\* modifiedFile at once; an unmaterialized directory with the tree's hash
\* gives no callback.
C19_ModeChangeAlwaysModified ==
  [][\A t \in Threads :
       /\ DiffPrunes(t)
       /\ ComputesDiff(t) =>
            /\ WalkClassifies(t)
            /\ \A n \in ModeChanged(t) :
                 <<"modifiedFile", th[t].df[1].path \o <<n>>>>
                   \in NewCallbacks(t, th[t].df[1].path \o <<n>>)]_vars

\* C19: the merge walk handles every name of the union once, a name only
\* in the directory as untracked, a name only in source control as removed
\* (a tree as a deferred entry), a name in both by comparison; an unloaded
\* unmaterialized entry of equal mode and hash gives no callback; an
\* unloaded unmaterialized file of another mode gives modifiedFile at once
\* when the source-control entry is not a tree, and when it is a tree the
\* file is reported as untracked or ignored, never as modified, and the
\* tree becomes a deferred removed entry; an unmaterialized directory with
\* the tree's hash gives no callback.
C19_MergeWalkClassifies ==
  [][\A t \in Threads :
       /\ DiffPrunes(t)
       /\ ComputesDiff(t) =>
            /\ WalkClassifies(t)
            /\ \A n \in ModeChanged(t) :
                 LET p == th[t].df[1].path \o <<n>> IN
                 IF ScmEntries(th[t].df[1].tree)[n].type = "tree"
                 THEN /\ NewCallbacks(t, p)
                           \in {{<<"untrackedFile", p>>}, {<<"ignoredFile", p>>}, {}}
                      /\ \E k \in NewDeferred(t, n) :
                           th'[t].df[1].deferred[k].kind = "removed"
                 ELSE /\ NewCallbacks(t, p) = {<<"modifiedFile", p>>}
                      /\ NewDeferred(t, n) = {}]_vars

\* The walk of a root against X1 has met names of all three classes and
\* has reported the file a, executable in X1, as modified.
C19_Witness ==
  \E t \in Threads :
    LET f == th[t].df[1] IN
    /\ th[t].op = "diff" /\ th[t].pc = "df_finish" /\ Len(th[t].df) = 1
    /\ f.tree = "X1"
    /\ {f.seen[k][2] : k \in DOMAIN f.seen} = {"untracked", "removed", "both"}
    /\ <<"modifiedFile", <<"a">>>> \in th[t].dctx.cb
    /\ \A k \in DOMAIN f.deferred : f.deferred[k].name # "a"

\* C20: when the ignore file of a directory cannot be read or yields no
\* bytes, the diff call still merge-walks the directory against the tree
\* with the ignore stack of its parent and no rules added: the callbacks
\* and the deferred entries are those of computeDiff under that stack.
C20_ReadFailureStillWalks ==
  [][\A t \in Threads :
       (/\ th[t].pc = "df_ignore" /\ th'[t].pc # "df_ignore"
        /\ th'[t].df[1].read \in {"empty", "error"})
       => LET f == th[t].df[1]
              walk == computeDiff(t, th[t].dctx, f.dir, f.path, f.tree, f.ignore, f.isIgnored)
          IN
          /\ th'[t].pc = "df_finish"
          /\ th'[t].df[1].ignore = f.ignore
          /\ th'[t].dctx.cb = walk.cb
          /\ th'[t].df[1].deferred = walk.deferred]_vars

\* The diffError callbacks of the step of thread t.
NewDiffErrors(t) ==
  {c \in th'[t].dctx.cb \ th[t].dctx.cb : c[1] = "diffError"}
\* Thread t runs the deferred entry at hand of its innermost diff call.
RunsDeferred(t) ==
  /\ th[t].pc = "df_run" /\ th[t].df[1].idx <= Len(th[t].df[1].deferred)
  /\ (th'[t].pc # "df_run" \/ th'[t].df # th[t].df)

\* C21: the deferred entries of a diff call are all run and the call then
\* completes successfully, whatever failed among them; a deferred entry
\* whose inode failed to load gives the diffError callback with its path,
\* and no step gives more than one diffError callback, each for the path
\* of the entry just run, after which the next entry is at hand.
C21_DiffErrorsDoNotAbort ==
  [][\A t \in Threads :
       LET r == th[t]
           f == r.df[1]
           job == f.deferred[f.idx]
           p == f.path \o <<job.name>>
       IN
       /\ (r.pc = "df_run" /\ th'[t].pc = "df_done")
            => /\ f.idx = Len(f.deferred) + 1
               /\ th'[t].df = r.df /\ ~f.failed
       /\ (r.pc = "df_done" /\ Len(r.df) = 1 /\ ~f.failed /\ th'[t].pc # "df_done")
            => th'[t].pc = "idle" /\ th'[t].res = "ok" /\ th'[t].dctx = r.dctx
       /\ (RunsDeferred(t) /\ job.wait /\ r.got[job.ino] = "err")
            => NewDiffErrors(t) = {<<"diffError", p>>}
       /\ (RunsDeferred(t) /\ NewDiffErrors(t) # {})
            => /\ NewDiffErrors(t) = {<<"diffError", p>>}
               /\ th'[t].pc = "df_run"
               /\ th'[t].df = [r.df EXCEPT ![1].idx = f.idx + 1]
       /\ (r.op = "diff" /\ ~RunsDeferred(t) /\ ~(r.pc = "df_done" /\ f.failed))
            => NewDiffErrors(t) = {}]_vars

\* A diff of the root has ended successfully after the load of directory
\* d and the walk of the removed tree e had failed, with the untracked
\* file below f, which comes after both, reported.
C21_Witness ==
  /\ th["t1"].pc = "idle" /\ th["t1"].done = 1 /\ th["t1"].res = "ok"
  /\ <<"diffError", <<"d">>>> \in th["t1"].dctx.cb
  /\ <<"diffError", <<"e">>>> \in th["t1"].dctx.cb
  /\ <<"untrackedFile", <<"f", "c">>>> \in th["t1"].dctx.cb

(***************************************************************************)
(* EdenDispatcher: the FUSE adapter's lookup.                              *)
(***************************************************************************)
\* The errors a lookup can fail with: std::system_error values of the
\* system category, and an exception that is no std::system_error.
SystemErrors == {"ENOENT", "EIO", "ENOTDIR"}
NotSystemError == "runtime_error"

\* fuse_entry_out, computeEntryParam(number, attr): the validity periods
\* are the ones of the attributes.
computeEntryParam(number) ==
  [sent |-> TRUE, nodeid |-> number, attr_valid |-> "attr", entry_valid |-> "attr"]
\* The zero-initialised fuse_entry_out of the onError handler of lookup,
\* with both validity periods at numeric_limits::max().
NegativeEntry ==
  [sent |-> TRUE, nodeid |-> 0, attr_valid |-> "max", entry_valid |-> "max"]

\* InodeBase::incFuseRefcount
incFuseRefcount(refs, i) ==
  (i :> (IF i \in DOMAIN refs THEN refs[i] + 1 ELSE 1)) @@ refs

\* EdenDispatcher::lookup(parent, name): InodeMap::lookupTreeInode(parent),
\* then getOrLoadChild(name) on it.
DispatcherLookup(t, parent, n) ==
  /\ CanStart(t)
  /\ parent \in Loaded
  /\ IF parent \in LoadedTrees
     THEN th' = Upd(t, [th[t] EXCEPT !.op = "fuse_lookup", !.pc = "golc", !.self = parent,
                          !.gDir = parent, !.gName = n, !.gRet = "dl_attr"])
     ELSE th' = Upd(t, [th[t] EXCEPT !.op = "fuse_lookup", !.pc = "dl_err",
                          !.gRes = "ENOTDIR"])
  /\ UNCHANGED <<dirs, loc, overlay, nextIno, journal, renameLock, clock, loads, futs, dotEden, fuseRefs, requests, channel>>

\* The continuation on the child: inode->getattr(), and on its success
\* incFuseRefcount and the entry of the inode.
DispatcherLookupAttr(t) ==
  LET r == th[t] IN
  /\ r.pc = "dl_attr"
  /\ UNCHANGED <<dirs, loc, overlay, nextIno, journal, renameLock, clock, loads, futs, dotEden,
                 requests, channel>>
  /\ IF r.gRes # "ok"
     THEN /\ th' = Upd(t, [r EXCEPT !.pc = "dl_err"])
          /\ fuseRefs' = fuseRefs
     ELSE \E attr \in {"ok", "ENOENT", "EIO", NotSystemError} :
            IF attr = "ok"
            THEN /\ fuseRefs' = incFuseRefcount(fuseRefs, r.gIno)
                 /\ th' = Upd(t, [Finish(t, "ok") EXCEPT !.reply = computeEntryParam(r.gIno)])
            ELSE /\ fuseRefs' = fuseRefs
                 /\ th' = Upd(t, [r EXCEPT !.pc = "dl_err", !.gRes = attr])

\* The test of lookup's onError handler on a std::system_error.
isNotFoundAlways(err) == err \in SystemErrors
isNotFound(err) == err \in SystemErrors /\ err = "ENOENT"

\* lookup's onError(const std::system_error&): ENOENT becomes the negative
\* entry, every other error is thrown again; an exception of another type
\* passes by the handler.
DispatcherLookupError(t) ==
  LET r == th[t] IN
  /\ r.pc = "dl_err"
  /\ th' = Upd(t, IF isNotFound(r.gRes)
                  THEN [Finish(t, "ok") EXCEPT !.reply = NegativeEntry]
                  ELSE Finish(t, r.gRes))
  /\ UNCHANGED <<dirs, loc, overlay, nextIno, journal, renameLock, clock, loads, futs, dotEden, fuseRefs, requests, channel>>

(***************************************************************************)
(* The mount of the removal checks, on which both threads send lookup      *)
(* requests through the dispatcher: for names that are present, loaded or  *)
(* not, absent, or reserved, in the root, in the directory e and in the    *)
(* file a.                                                                 *)
(***************************************************************************)
NextDispatch ==
  \/ \E t \in Threads : \E p \in {kRootNodeId, 2, 4} :
       \E n \in {"a", "d", "f", kDotEdenName} : DispatcherLookup(t, p, n)
  \/ \E t \in Threads : GetOrLoadChild(t)
  \/ \E t \in Threads : GetOrLoadChildPost(t)
  \/ \E t \in Threads : GetOrLoadChildDone(t)
  \/ \E k \in DOMAIN futs : InodeLoadComplete(k)
  \/ \E k \in DOMAIN futs : InodeLoadError(k)
  \/ \E t \in Threads : DispatcherLookupAttr(t)
  \/ \E t \in Threads : DispatcherLookupError(t)

SpecDispatch == InitRefuse /\ [][NextDispatch]_vars

\* Thread t's lookup request ends in this step, after the failure err.
LookupFails(t, err) ==
  /\ th[t].op = "fuse_lookup" /\ th[t].pc = "dl_err" /\ th[t].gRes = err
  /\ th'[t].pc = "idle"

\* C22: a dispatcher lookup that fails with ENOENT ends with a successful
\* reply whose inode number is 0 and whose attr_valid and entry_valid are
\* the maximum, changes no FUSE reference count and reports no error; a
\* lookup that fails with any other error ends with that error and sends
\* no entry.  No step of a failing lookup changes a reference count.
C22_NegativeLookup ==
  [][\A t \in Threads :
       /\ LookupFails(t, "ENOENT") =>
            /\ th'[t].res = "ok"
            /\ th'[t].reply = NegativeEntry
            /\ NegativeEntry.nodeid = 0
            /\ fuseRefs' = fuseRefs
       /\ \A err \in (SystemErrors \cup {NotSystemError}) \ {"ENOENT"} :
            LookupFails(t, err) =>
              /\ th'[t].res = err
              /\ ~th'[t].reply.sent
              /\ fuseRefs' = fuseRefs
       /\ (th[t].pc # "dl_err" /\ th'[t].pc = "dl_err") => fuseRefs' = fuseRefs
       /\ (th[t].op = "fuse_lookup" /\ th'[t].pc = "idle" /\ th[t].pc # "dl_err") =>
            /\ th'[t].res = "ok"
            /\ th'[t].reply = computeEntryParam(th[t].gIno)
            /\ fuseRefs' = incFuseRefcount(fuseRefs, th[t].gIno)
    ]_vars

\* Both cases have happened: one request was answered with the negative
\* entry and the other ended with the error of a failed load, and no
\* reference count was taken.
C22_Witness ==
  /\ th["t1"].pc = "idle" /\ th["t1"].res = "ok" /\ th["t1"].reply = NegativeEntry
  /\ th["t2"].pc = "idle" /\ th["t2"].res \in {"EIO", NotSystemError, "ENOTDIR"}
  /\ ~th["t2"].reply.sent
  /\ fuseRefs = <<>>
  /\ requests = <<>>
  /\ channel = <<>>

(***************************************************************************)
(* RequestData: the header of a FUSE request and its release.              *)
(***************************************************************************)
\* Calls made on one RequestData.
MaxCalls == 3
\* The opcodes of the requests that arrive, and the errno values replied.
Opcodes == {1, 3}
Errnos == {"ENOENT", "EIO"}

\* RequestData::RequestData(channel, fuseHeader, dispatcher)
RequestData(unique, opcode) ==
  [fuseHeader |-> [opcode |-> opcode, unique |-> unique], calls |-> 0, raised |-> 0,
   ret |-> 0]

\* RequestData::stealReq: the header it returns and the header it leaves,
\* or the runtime_error of a released header.
stealReqKeepsHeader(h) ==
  IF h.opcode = 0
  THEN [raised |-> TRUE, res |-> h, fuseHeader |-> h]
  ELSE [raised |-> FALSE, res |-> h, fuseHeader |-> h]
stealReq(h) ==
  IF h.opcode = 0
  THEN [raised |-> TRUE, res |-> h, fuseHeader |-> h]
  ELSE [raised |-> FALSE, res |-> h, fuseHeader |-> [h EXCEPT !.opcode = 0]]

\* RequestData::getReq
getReq(h) ==
  IF h.opcode = 0
  THEN [raised |-> TRUE, res |-> h, fuseHeader |-> h]
  ELSE [raised |-> FALSE, res |-> h, fuseHeader |-> h]

\* The RequestData after a call with outcome s.
Called(rd, s) ==
  [fuseHeader |-> s.fuseHeader, calls |-> rd.calls + 1,
   raised |-> rd.raised + (IF s.raised THEN 1 ELSE 0),
   ret |-> IF s.raised THEN 0 ELSE s.res.opcode]

MountUntouched ==
  UNCHANGED <<dirs, loc, overlay, nextIno, journal, renameLock, clock, loads, futs, dotEden,
              fuseRefs, th>>

StealReq(u) ==
  /\ requests[u].calls < MaxCalls
  /\ requests' = [requests EXCEPT ![u] = Called(@, stealReq(@.fuseHeader))]
  /\ channel' = channel
  /\ MountUntouched

GetReq(u) ==
  /\ requests[u].calls < MaxCalls
  /\ requests' = [requests EXCEPT ![u] = Called(@, getReq(@.fuseHeader))]
  /\ channel' = channel
  /\ MountUntouched

\* RequestData::replyError(err): channel_->replyError(stealReq(), err)
ReplyError(u, err) ==
  LET s == stealReq(requests[u].fuseHeader) IN
  /\ requests[u].calls < MaxCalls
  /\ requests' = [requests EXCEPT ![u] = Called(@, s)]
  /\ channel' = IF s.raised THEN channel
                ELSE Append(channel, [unique |-> s.res.unique, error |-> err])
  /\ MountUntouched

\* RequestData::replyNone
ReplyNone(u) ==
  /\ requests[u].calls < MaxCalls
  /\ requests' = [requests EXCEPT ![u] = Called(@, stealReq(@.fuseHeader))]
  /\ channel' = channel
  /\ MountUntouched

\* RequestData::systemErrorHandler: the errno of an error of the system
\* category, EIO for one of another category.
systemErrorHandler(err) == IF err.category = "system" THEN err.value ELSE "EIO"
SystemErrorHandler(u, err) == ReplyError(u, systemErrorHandler(err))
\* RequestData::genericErrorHandler
GenericErrorHandler(u) == ReplyError(u, "EIO")

(***************************************************************************)
(* Two requests on an idle mount, each with any sequence of calls.         *)
(***************************************************************************)
InitRequest ==
  /\ dirs = (kRootNodeId :> buildDirFromTree("R1"))
  /\ loc = (kRootNodeId :> RootLoc)
  /\ overlay = <<>>
  /\ nextIno = 2
  /\ journal = <<>>
  /\ renameLock = NoThread
  /\ clock = <<>>
  /\ loads = <<>>
  /\ futs = <<>>
  /\ dotEden = 0
  /\ fuseRefs = <<>>
  /\ \E o1, o2 \in Opcodes : requests = (1 :> RequestData(1, o1)) @@ (2 :> RequestData(2, o2))
  /\ channel = <<>>
  /\ th = [t \in Threads |-> IdleThread]

NextRequest ==
  \/ \E u \in DOMAIN requests : StealReq(u)
  \/ \E u \in DOMAIN requests : GetReq(u)
  \/ \E u \in DOMAIN requests : \E err \in Errnos : ReplyError(u, err)
  \/ \E u \in DOMAIN requests : ReplyNone(u)
  \/ \E u \in DOMAIN requests :
       \E err \in [category : {"system", "generic"}, value : Errnos] :
         SystemErrorHandler(u, err)
  \/ \E u \in DOMAIN requests : GenericErrorHandler(u)

SpecRequest == InitRequest /\ [][NextRequest]_vars

\* The replies written to the channel for request u.
RepliesOf(ch, u) == {k \in DOMAIN ch : ch[k].unique = u}
\* The header of request u has been released.
Released(u) == requests[u].fuseHeader.opcode = 0

\* C23: whatever calls are made on one RequestData, at most one reply for
\* it is written to the channel; a call made after the header has been
\* released raises an error, writes nothing and leaves the header released.
C23_HeaderConsumedOnce ==
  [][\A u \in DOMAIN requests :
       /\ Cardinality(RepliesOf(channel', u)) <= 1
       /\ (Released(u) /\ requests'[u].calls = requests[u].calls + 1) =>
            /\ requests'[u].raised = requests[u].raised + 1
            /\ channel' = channel
            /\ requests'[u].fuseHeader = requests[u].fuseHeader
       /\ (~Released(u) /\ requests'[u].calls = requests[u].calls + 1) =>
            requests'[u].raised = requests[u].raised
    ]_vars

\* Request 1 was answered once and two later calls on it raised; request 2
\* was released without a reply and a later call on it raised.
C23_Witness ==
  /\ Cardinality(RepliesOf(channel, 1)) = 1 /\ requests[1].raised = 2
  /\ Released(2) /\ RepliesOf(channel, 2) = {} /\ requests[2].raised >= 1

(***************************************************************************)
(* Inode number allocation.                                                *)
(***************************************************************************)
\* TreeInode::getChildInodeNumber(name) on directory d, under the contents
\* lock: the number of the loaded child or of the entry, or a new number
\* that is stored in the entry.
GetChildInodeNumber(t, d, n) ==
  /\ CanStart(t)
  /\ d \in LoadedTrees
  /\ Free(d)
  /\ UNCHANGED <<loc, overlay, journal, renameLock, clock, loads, futs, dotEden, fuseRefs, requests, channel>>
  /\ IF ~Present(d, n)
     THEN /\ th' = Upd(t, Finish(t, "ENOENT"))
          /\ UNCHANGED <<dirs, nextIno>>
     ELSE LET ent == dirs[d].entries[n] IN
          IF ent.loaded \/ hasInodeNumber(ent)
          THEN /\ th' = Upd(t, [Finish(t, "ok") EXCEPT !.reply.nodeid = ent.ino])
               /\ UNCHANGED <<dirs, nextIno>>
          ELSE /\ nextIno <= MaxIno
               /\ nextIno' = nextIno + 1
               /\ dirs' = SetEntry(dirs, d, n, [ent EXCEPT !.ino = nextIno])
               /\ th' = Upd(t, [Finish(t, "ok") EXCEPT !.reply.nodeid = nextIno])

(***************************************************************************)
(* The mount of the removal checks, on which one thread looks up d (whose  *)
(* load can fail), asks for inode numbers and removes e, while the other   *)
(* creates entries and asks for inode numbers.                             *)
(***************************************************************************)
NextAlloc ==
  \/ Remove_("t1", kRootNodeId, "e", "rmdir")
  \/ Lookup("t1", kRootNodeId, "d")
  \/ \E t \in Threads : \E n \in {"a", "d", "f"} : GetChildInodeNumber(t, kRootNodeId, n)
  \/ \E n \in {"e", "f"} : \E kind \in {"mkdir", "create"} :
       Create("t2", kRootNodeId, n, kind, FALSE)
  \/ \E t \in Threads : LoadSteps(t)
  \/ LoadCallbacks
  \/ \E t \in Threads : Materialize(t)
  \/ \E t \in Threads : CreateSteps(t)
  \/ \E t \in Threads : RemoveSteps(t)
  \/ DestroyUnlinked

SpecAlloc == InitRefuse /\ [][NextAlloc]_vars

\* The inode numbers in use in a state: those of the entries, of the inodes
\* in memory, of the loads in progress and of the overlay's data.
EntryNumbers(ds) ==
  UNION {{ds[d].entries[n].ino : n \in DOMAIN ds[d].entries} : d \in DOMAIN ds} \ {0}
NumbersOf(ds, lc, ls, ov) == EntryNumbers(ds) \cup DOMAIN lc \cup DOMAIN ls \cup DOMAIN ov
\* The entries of the mount that carry a number: <<directory, name>>.
NumberedEntries ==
  UNION {{<<d, n>> : n \in {m \in DOMAIN dirs[d].entries : hasInodeNumber(dirs[d].entries[m])}} :
           d \in LoadedTrees}
\* Thread t's getOrLoadChild starts the load of an entry that has a number.
LoadsNumbered(t) ==
  /\ th[t].pc = "golc" /\ th'[t].pc \in {"golc_post", "golc_wait"}
  /\ Present(th[t].gDir, th[t].gName)
  /\ dirs[th[t].gDir].entries[th[t].gName].ino # 0

\* C24: the counter never decreases; every number that appears in a step
\* is one the counter had not reached, so it differs from every number
\* handed out before; no two entries of the mount carry the same number;
\* a failed load leaves the entry its number, and a load of an entry that
\* has a number uses that number and allocates none.
C24_InodeNumbersUnique ==
  [][/\ nextIno' >= nextIno
     /\ NumbersOf(dirs, loc, loads, overlay) \subseteq 1..(nextIno - 1)
     /\ NumbersOf(dirs', loc', loads', overlay') \ NumbersOf(dirs, loc, loads, overlay)
          \subseteq nextIno..(nextIno' - 1)
     /\ \A t \in Threads : th'[t].reply.nodeid # 0 => th'[t].reply.nodeid < nextIno'
     /\ \A x, y \in NumberedEntries :
          dirs[x[1]].entries[x[2]].ino = dirs[y[1]].entries[y[2]].ino => x = y
     /\ \A k \in DOMAIN futs :
          (Len(futs') < Len(futs) /\ futs' = RemoveAt(futs, k)
           /\ futs[k].ino \notin DOMAIN loc' /\ Present(futs[k].parent, futs[k].name))
            => dirs'[futs[k].parent].entries[futs[k].name].ino = futs[k].ino
     /\ \A t \in Threads :
          LoadsNumbered(t) =>
            /\ th'[t].gIno = dirs[th[t].gDir].entries[th[t].gName].ino
            /\ nextIno' = nextIno
    ]_vars

\* The load of d failed and a second lookup has started its load again
\* under the number of the first, after another entry got its number.
C24_Witness ==
  /\ th["t1"].done = 1 /\ th["t1"].res = "EIO" /\ th["t1"].op = "lookup"
  /\ th["t1"].pc = "golc_post" /\ th["t1"].gIno = 6
  /\ "d" \in DOMAIN dirs[kRootNodeId].entries /\ dirs[kRootNodeId].entries["d"].ino = 6
  /\ nextIno = 8

(***************************************************************************)
(* Create and remove in turn.  On the mount of the removal checks one      *)
(* thread creates f, as a file or as a directory, in the root or in e,     *)
(* and then removes it with unlink or rmdir; the other thread looks up f   *)
(* and a in these directories meanwhile.                                   *)
(***************************************************************************)
NextTrip ==
  \/ \E d \in DirNamed("e") \cup {kRootNodeId} : \E kind \in {"create", "mkdir"} :
       th["t2"].done = 0 /\ Create("t2", d, "f", kind, FALSE)
  \/ \E d \in LoadedTrees : \E kind \in {"unlink", "rmdir"} :
       th["t2"].done = 1 /\ Present(d, "f") /\ Remove_("t2", d, "f", kind)
  \/ \E d \in DirNamed("e") \cup {kRootNodeId} : \E n \in {"a", "f"} : Lookup("t1", d, n)
  \/ \E t \in Threads : GetOrLoadChild(t)
  \/ \E t \in Threads : OpDone(t)
  \/ \E t \in Threads : MaterializeSteps(t)
  \/ \E t \in Threads : MaterializeOwnLock(t)
  \/ \E t \in Threads : CreateSteps(t)
  \/ \E t \in Threads : RemoveSteps(t)
  \/ DestroyUnlinked

SpecTrip == InitRefuse /\ [][NextTrip]_vars

\* A directory's listing: the names with their modes, hashes and numbers.
ListingOf(entries) ==
  [n \in DOMAIN entries |->
     [mode |-> entries[n].mode, hash |-> entries[n].hash, ino |-> entries[n].ino]]
\* The listing directory d had before any operation.
ListingBefore(d) ==
  IF d = kRootNodeId
  THEN ListingOf(RefuseRoot(kDotEdenName \in DOMAIN dirs[kRootNodeId].entries).entries)
  ELSE ListingOf(buildDirFromTree("TE").entries)
\* Thread t's remove ends with success in this step, after its successful
\* create.
PairEnds(t) ==
  /\ th[t].op \in {"unlink", "rmdir"} /\ th[t].done = 1 /\ th[t].res = "ok"
  /\ th'[t].done = 2 /\ th'[t].res = "ok"

\* C25: when create then unlink, or mkdir then rmdir, of a name that the
\* directory did not hold have both succeeded, the directory's listing is
\* the one before the pair, and the journal holds one CREATED and then one
\* REMOVED record for the path, and nothing else.
C25_CreateRemoveRoundTrip ==
  [][\A t \in Threads :
       PairEnds(t) =>
         LET d == th[t].self
             path == getPath(d) \o <<th[t].name>>
         IN
         /\ ListingOf(dirs'[d].entries) = ListingBefore(d)
         /\ journal' = <<JournalDelta("CREATED", path, <<>>),
                         JournalDelta("REMOVED", path, <<>>)>>
         /\ (th[t].op = "rmdir") = (th[t].deleted \in DOMAIN dirs)
    ]_vars

\* Both pairs happen: f was made and removed as a directory in e.
C25_Witness ==
  /\ th["t2"].done = 2 /\ th["t2"].res = "ok"
  /\ journal = <<JournalDelta("CREATED", <<"e", "f">>, <<>>),
                 JournalDelta("REMOVED", <<"e", "f">>, <<>>)>>
  /\ 6 \in DOMAIN dirs
  /\ "f" \notin DOMAIN dirs[2].entries

(***************************************************************************)
(* Rename there and back.  On the mount of the removal checks one thread   *)
(* renames a (a loaded file) or d (a directory that is not loaded and has  *)
(* no inode number) of the root to the free name f, in the root or in e,   *)
(* and then renames f to a name of the root; the other thread looks f up.  *)
(***************************************************************************)
NextSwap ==
  \/ \E n \in {"a", "d"} : \E q \in DirNamed("e") \cup {kRootNodeId} :
       th["t1"].done = 0 /\ Rename("t1", kRootNodeId, n, q, "f")
  \/ \E n \in {"a", "d"} : \E q \in LoadedTrees :
       /\ th["t1"].done = 1 /\ th["t1"].res = "ok" /\ Present(q, "f")
       /\ Rename("t1", q, "f", kRootNodeId, n)
  \/ \E q \in DirNamed("e") \cup {kRootNodeId} : Lookup("t2", q, "f")
  \/ \E t \in Threads : LoadSteps(t)
  \/ LoadCallbacks
  \/ \E t \in Threads : MaterializeSteps(t)
  \/ \E t \in Threads : RenameSteps(t)

SpecSwap == InitRefuse /\ [][NextSwap]_vars

\* Thread t's second rename ends in this step, and it is the reverse of
\* its first: x was renamed to y and y is now renamed to x.
SwapEnds(t, x, y) ==
  /\ th[t].op = "rename" /\ th[t].done = 1 /\ th'[t].done = 2 /\ th'[t].res = "ok"
  /\ journal = <<JournalDelta("RENAME", x, y)>>
  /\ journal' = Append(journal, JournalDelta("RENAME", y, x))
\* The paths of the renames: of the root's a and d, and of f in the root
\* and in e.
SwapSources == {<<"a">>, <<"d">>}
SwapTargets == {<<"f">>, <<"e", "f">>}
\* Both parents hold the names they held before the pair.
SwapRestoresNames ==
  /\ DOMAIN dirs'[kRootNodeId].entries = DOMAIN ListingBefore(kRootNodeId)
  /\ DOMAIN dirs'[2].entries = DOMAIN ListingBefore(2)

\* C26 as stated: after the pair both parents hold the names they held
\* before and the entry has the inode number, mode and hash it had before.
C26_RenameRoundTrip ==
  [][\A t \in Threads : \A x \in SwapSources : \A y \in SwapTargets :
       SwapEnds(t, x, y) =>
         /\ SwapRestoresNames
         /\ ListingOf(dirs'[kRootNodeId].entries)[x[1]] = ListingBefore(kRootNodeId)[x[1]]
    ]_vars

\* C26: after the pair both parents hold the names they held before, and
\* the entry has the mode and hash it had before; it has the inode number
\* it had before when it had one, and otherwise the number that the load
\* of the first rename allocated for it.
C26_RenameRoundTripNumbered ==
  [][\A t \in Threads : \A x \in SwapSources : \A y \in SwapTargets :
       SwapEnds(t, x, y) =>
         LET before == ListingBefore(kRootNodeId)[x[1]]
             after == ListingOf(dirs'[kRootNodeId].entries)[x[1]]
         IN
         /\ SwapRestoresNames
         /\ after.mode = before.mode /\ after.hash = before.hash
         /\ before.ino # 0 => after.ino = before.ino
         /\ before.ino = 0 => after.ino = 6 /\ after.ino = th[t].child
    ]_vars

\* The directory d, which had no number, went to e/f and came back.
C26_Witness ==
  /\ th["t1"].done = 2 /\ th["t1"].res = "ok"
  /\ journal = <<JournalDelta("RENAME", <<"d">>, <<"e", "f">>),
                 JournalDelta("RENAME", <<"e", "f">>, <<"d">>)>>
  /\ dirs[kRootNodeId].entries["d"].ino = 6
  /\ dirs[kRootNodeId].entries["d"].hash = "D1"

(***************************************************************************)
(* The order of the contents locks of a rename.                            *)
(***************************************************************************)
\* Thread t's rename takes the contents lock of x in this step.
TakesLock(t, x) ==
  /\ th[t].pc = "rn_locks"
  /\ x \notin DOMAIN clock /\ x \in DOMAIN clock' /\ clock'[x] = t
\* The destination child of t's rename, when it is a loaded directory.
DestChildDir(t) ==
  LET e == th[t].destParent
      m == th[t].destName
  IN IF m \in DOMAIN dirs[e].entries /\ dirs[e].entries[m].mode = "dir"
        /\ dirs[e].entries[m].loaded
     THEN {dirs[e].entries[m].ino} ELSE {}
\* The order in which the placement of source parent, destination parent
\* and destination child has the locks taken.
LockOrder(t) ==
  LET src == th[t].self
      dest == th[t].destParent
      dc == IF DestChildDir(t) = {} THEN <<>> ELSE <<CHOOSE x \in DestChildDir(t) : TRUE>>
  IN
  IF src = dest THEN <<src>> \o dc
  ELSE IF isAncestor(src, dest) THEN <<src, dest>> \o dc
  ELSE IF DestChildDir(t) = {src} THEN <<dest, src>>
  ELSE <<dest>> \o dc \o <<src>>

\* C27: each contents lock a rename takes is the next of the order given
\* by the placement, after exactly the ones before it; it is taken once;
\* no lock already held is that of an ancestor's descendant, that is, the
\* lock taken is not an ancestor of a directory whose lock is held; when
\* the destination is locked first the source parent is an ancestor
\* neither of the destination parent nor of the destination child; and a
\* lock that is neither parent's is the one of the destination child,
\* which is a loaded directory.
C27_RenameLockOrder ==
  [][\A t \in Threads : \A x \in LoadedTrees :
       TakesLock(t, x) =>
         LET order == LockOrder(t)
             k == Cardinality(Held(t)) + 1
         IN
         /\ k <= Len(order) /\ order[k] = x
         /\ Held(t) = {order[j] : j \in 1..(k - 1)}
         /\ \A j1, j2 \in 1..Len(order) : order[j1] = order[j2] => j1 = j2
         /\ \A h \in Held(t) : ~isAncestor(x, h)
         /\ (order[1] = th[t].destParent /\ th[t].self # th[t].destParent) =>
              /\ ~isAncestor(th[t].self, th[t].destParent)
              /\ \A c \in DestChildDir(t) : ~isAncestor(th[t].self, c)
         /\ x \notin {th[t].self, th[t].destParent} => x \in DestChildDir(t)
    ]_vars

\* A rename of d/c onto the root's d holds the root's lock and the lock of
\* d, which is both its source parent and its destination child.
C27_Witness ==
  \E t \in Threads :
    /\ th[t].pc = "rn_locks" /\ acquireLocks(t) = 0
    /\ th[t].destParent = kRootNodeId /\ th[t].self # kRootNodeId
    /\ DestChildDir(t) = {th[t].self}
    /\ Held(t) = {kRootNodeId, th[t].self}

(***************************************************************************)
(* Promises and load callbacks against the contents lock.                  *)
(***************************************************************************)
\* A promise of thread u for inode i is completed in this step.
Fulfils(u, i) == i \in DOMAIN th'[u].got /\ i \notin DOMAIN th[u].got
\* The completion callbacks of the load of inode i are attached in this
\* step.
Attaches(i) ==
  /\ \E k \in DOMAIN futs : futs[k].ino = i /\ ~futs[k].reg
  /\ \E k \in DOMAIN futs' : futs'[k].ino = i /\ futs'[k].reg
\* Thread t takes this step inside getOrLoadChild with the contents lock
\* of the directory it looks the name up in: the locked section itself,
\* or a later step before the lock is released.
LoadsUnderLock(t) ==
  /\ th'[t].pc # th[t].pc
  /\ \/ th[t].pc = "golc"
     \/ th[t].pc \in {"golc_dot", "golc_post"} /\ th[t].gDir \in Held(t)
\* The inode is in the inode map, and in its entry unless it was unlinked.
Recorded(i) ==
  /\ i \in DOMAIN loc'
  /\ ~loc'[i].unlinked =>
       /\ loc'[i].name \in DOMAIN dirs'[loc'[i].parent].entries
       /\ dirs'[loc'[i].parent].entries[loc'[i].name].ino = i
       /\ dirs'[loc'[i].parent].entries[loc'[i].name].loaded

\* C28 as stated: no step that a thread takes in getOrLoadChild with the
\* directory's contents lock held completes a promise or attaches the
\* callbacks of a load, and a promise is completed with an inode only
\* when the inode is recorded in its entry and in the inode map.
C28_WaitersAfterUnlock ==
  [][/\ \A t \in Threads :
          LoadsUnderLock(t) =>
            /\ \A u \in Threads : \A i \in 1..MaxIno : ~Fulfils(u, i)
            /\ \A i \in 1..MaxIno : ~Attaches(i)
     /\ \A u \in Threads : \A i \in 1..MaxIno :
          (Fulfils(u, i) /\ th'[u].got[i] = "ok") => Recorded(i)
    ]_vars


(***************************************************************************)
(* Materialization state transitions and the rename lock.  Both threads    *)
(* create entries in directory d, so that two materialize() calls on d     *)
(* run side by side, and the first thread may run checkouts instead.       *)
(***************************************************************************)
NextRace ==
  \/ \E c \in CheckoutCalls(th["t1"].snapshot) : StartCheckout("t1", c[1], c[2], c[3])
  \/ \E d \in DirNamed("d") : Create("t1", d, "b", "create", FALSE)
  \/ \E d \in DirNamed("d") : \E k \in {"create", "mkdir"} : Create("t2", d, "f", k, FALSE)
  \/ \E d \in DirNamed("d") : Remove_("t2", d, "c", "unlink")
  \/ \E t \in Threads : CheckoutSteps(t)
  \/ \E t \in Threads : GetOrLoadChild(t)
  \/ \E t \in Threads : GetOrLoadChildPost(t)
  \/ \E t \in Threads : GetOrLoadChildDone(t)
  \/ \E t \in Threads : MaterializeSteps(t)
  \/ \E t \in Threads : MaterializeOwnLock(t)
  \/ \E t \in Threads : CreateSteps(t)
  \/ \E t \in Threads : RemoveSteps(t)
  \/ LoadCallbacks
  \/ DestroyUnlinked

SpecRace == InitMat /\ [][NextRace]_vars

\* Directory d goes from treeHash present to absent or back in this step.
MaterializationChanges(d) ==
  /\ d \in DOMAIN dirs /\ d \in DOMAIN dirs'
  /\ DirIsMaterialized(dirs[d]) # DirIsMaterialized(dirs'[d])

\* Thread t takes the locked step of materialize() on directory d.
MaterializesLocked(t, d) ==
  /\ th[t].matSelf = d
  /\ \/ th[t].pc = "mat" /\ th[t].haveRL
     \/ th[t].pc = "mat_w"
  /\ th'[t] # th[t]

\* C29: a directory's treeHash changes from present to absent or from
\* absent to present only in a step of the thread that holds the rename
\* lock; and a materialize() that finds the directory materialized under
\* the locks changes nothing, saves nothing and does not call
\* childMaterialized, while one that finds it unmaterialized makes the
\* transition, saves the listing and calls childMaterialized on a linked
\* parent: of two concurrent calls on one directory exactly one does.
C29_TransitionsUnderRenameLock ==
  [][ /\ \A d \in DOMAIN dirs :
           MaterializationChanges(d) =>
             \E t \in Threads : renameLock = t /\ th'[t] # th[t]
      /\ \A t \in Threads : \A d \in DOMAIN dirs :
           MaterializesLocked(t, d) =>
             /\ renameLock = t
             /\ IF DirIsMaterialized(dirs[d])
                THEN /\ dirs' = dirs /\ overlay' = overlay
                     /\ th'[t].pc # "ch"
                ELSE /\ DirIsMaterialized(dirs'[d])
                     /\ \A x \in DOMAIN dirs \ {d} : dirs'[x] = dirs[x]
                     /\ d \in DOMAIN overlay'
                     /\ overlay'[d] = saveOverlayDir(overlay, d, dirs'[d])[d]
                     /\ (loc[d].parent # 0 /\ ~loc[d].unlinked) =>
                          /\ th'[t].pc = "ch" /\ th'[t].chCur = loc[d].parent
                          /\ th'[t].chIno = d
    ]_vars

\* Both threads are creating an entry in the same directory and both went
\* into materialize(): one has made the transition and is still telling
\* the parents, while the other waits for the rename lock with the
\* directory already materialized.
C29_Witness ==
  \E d \in LoadedTrees :
    /\ th["t1"].op \in CreateKinds /\ th["t2"].op \in CreateKinds
    /\ th["t1"].matSelf = d /\ th["t2"].matSelf = d
    /\ \E t \in Threads : \E u \in Threads \ {t} :
         /\ th[t].pc = "ch" /\ renameLock = t
         /\ th[u].pc = "mat_acq"
    /\ DirIsMaterialized(dirs[d])
    /\ d \in DOMAIN overlay


(***************************************************************************)
(* The order of the overlay writes at the end of a directory's checkout.   *)
(***************************************************************************)
\* The listing that the overlay holds for directory d is the one of dir.
ListingSaved(ov, d, dir) ==
  d \in DOMAIN ov /\ ov[d] = saveOverlayDir(ov, d, dir)[d]

\* The overlay holds a listing of directory d as a materialized directory.
MaterializedListing(ov, d) ==
  d \in DOMAIN ov /\ ov[d].kind = "dir" /\ ov[d].treeHash = None

\* Directory d has a parent to inform: it is neither the root nor unlinked.
HasLinkedParent(d) == loc[d].parent # 0 /\ ~loc[d].unlinked

\* The persisted listing of d's parent records d with source-control hash h.
ParentRecordsHash(ov, d, h) ==
  LET p == loc[d].parent
      n == loc[d].name
  IN /\ p \in DOMAIN ov
     /\ n \in DOMAIN ov[p].entries
     /\ ov[p].entries[n].hash = h

\* Thread t takes the childDematerialized step of saveOverlayPostCheckout.
InformsDematerialized(t) ==
  /\ th[t].pc = "co_demat"
  /\ th'[t].pc \notin {"co_demat", "dead"} /\ th'[t].op = "checkout"

\* Thread t makes the childMaterialized call of saveOverlayPostCheckout on
\* the parent of the directory of the innermost checkout.
InformsMaterialized(t) ==
  /\ th[t].pc = "ch" /\ th[t].chRet = "co_rmdata"
  /\ th[t].co # <<>> /\ th[t].chIno = th[t].co[1].dir
  /\ th'[t] # th[t]

\* Thread t takes the last step of saveOverlayPostCheckout and removes the
\* directory's own overlay data in it.
RemovesOwnData(t) ==
  /\ th[t].pc = "co_rmdata" /\ th'[t] # th[t]
  /\ th[t].co[1].dir \in DOMAIN overlay
  /\ th[t].co[1].dir \notin DOMAIN overlay'

\* C30: saveOverlayPostCheckout saves the listing of a directory that is
\* materialized afterwards in its locked step, before any childMaterialized
\* call on the parent (made only when the state changed), and leaves the
\* overlay data of a directory that became dematerialized in place; the
\* childDematerialized step leaves that data in place too and saves the
\* parent's listing with the child's source-control hash; and when the
\* directory's own data is removed, the persisted listing of a linked
\* parent already records that hash.
C30_DematerializeOrder ==
  [][\A t \in Threads :
       LET d == th[t].co[1].dir
           toTree == th[t].co[1].to
       IN
       /\ SavesPostCheckout(t) =>
            IF DirIsMaterialized(dirs'[d])
            THEN /\ ListingSaved(overlay', d, dirs'[d])
                 /\ th'[t].pc = "ch" => dirs[d].treeHash # None
            ELSE /\ d \in DOMAIN overlay => (d \in DOMAIN overlay' /\ overlay'[d] = overlay[d])
                 /\ (DirIsMaterialized(dirs[d]) /\ HasLinkedParent(d)) =>
                      th'[t].pc = "co_demat"
       /\ InformsDematerialized(t) =>
            /\ d \in DOMAIN overlay => (d \in DOMAIN overlay' /\ overlay'[d] = overlay[d])
            /\ d \in DOMAIN overlay => ParentRecordsHash(overlay', d, toTree)
       /\ InformsMaterialized(t) => MaterializedListing(overlay, d)
       /\ RemovesOwnData(t) =>
            /\ th[t].co[1].changed /\ ~th[t].co[1].isMat
            /\ HasLinkedParent(d) => ParentRecordsHash(overlay, d, toTree)
    ]_vars

\* A checkout has made a materialized directory below the root identical
\* to its new tree: the parent's persisted listing records the tree's hash
\* for it, and the directory's own overlay data is about to be removed.
C30_Witness ==
  \E t \in Threads :
    /\ th[t].op = "checkout" /\ th[t].pc = "co_rmdata"
    /\ LET f == th[t].co[1] IN
       /\ f.changed /\ ~f.isMat
       /\ f.dir \in DOMAIN overlay
       /\ HasLinkedParent(f.dir)
       /\ ParentRecordsHash(overlay, f.dir, f.to)
       /\ ~DirIsMaterialized(dirs[f.dir])


(***************************************************************************)
(* Which inode unlink and rmdir remove.                                    *)
(***************************************************************************)
\* Thread t, in unlink or rmdir, takes a step of the locked part of
\* tryRemoveChild and leaves it.
LeavesTryRemove(t) ==
  /\ th[t].op \in {"unlink", "rmdir"}
  /\ th[t].pc \in {"tr_lock", "tr_check"} /\ th'[t].pc = "rm_after"

\* That step erases the entry.
ErasesEntry(t) == LeavesTryRemove(t) /\ th'[t].trRes = "ok"

ValidatesRename(t) ==
  /\ th[t].op = "rename" /\ th[t].pc = "rn_locks" /\ acquireLocks(t) = 0
  /\ th'[t] # th[t]

\* An endpoint of t's rename has an entry without a loaded inode.
EndpointNotLoaded(t) ==
  LET d == th[t].self
      e == th[t].destParent
  IN /\ Present(d, th[t].name)
     /\ \/ ~dirs[d].entries[th[t].name].loaded
        \/ Present(e, th[t].destName) /\ ~dirs[e].entries[th[t].destName].loaded

\* C32: a rename that finds its source entry, or an existing destination
\* entry, without a loaded inode moves nothing in that run: it either
\* fails its validation or releases the contents locks and the rename
\* lock and goes on to load the endpoints, and after the loads it runs
\* again from the acquisition of the rename lock; entries are moved only
\* in the step that validates with the locks held.
C32_RestartOnUnloaded ==
  [][\A t \in Threads :
       /\ (ValidatesRename(t) /\ EndpointNotLoaded(t)) =>
            /\ dirs' = dirs /\ loc' = loc /\ overlay' = overlay /\ journal' = journal
            /\ Held(t)' = {} /\ renameLock' = NoThread
            /\ th'[t].pc \in {"rn_load", "idle"}
            /\ th'[t].pc = "idle" => th'[t].res \in {"ENOENT", "ENOTDIR", "EISDIR"}
       /\ (th[t].pc = "rn_load" /\ th'[t].pc # "rn_load") =>
            /\ th'[t].pc \in {"golc", "rn_acq", "idle"}
            /\ th'[t].pc = "idle" => th'[t].res \notin {"", "ok"}
            /\ UNCHANGED <<dirs, loc, renameLock, clock>>
       /\ (th[t].op = "rename" /\ th'[t].pc = "rn_save1" /\ th[t].pc # "rn_save1") =>
            /\ ValidatesRename(t) /\ ~EndpointNotLoaded(t)
            /\ renameLock = t
    ]_vars


(***************************************************************************)
(* The journal records of rename and remove.                               *)
(***************************************************************************)
\* Thread t has moved or erased an entry and has not yet passed the point
\* where it appends the journal record.
StructuralChangePending(t) ==
  \/ th[t].op = "rename" /\ th[t].pc \in {"rn_save1", "rn_save2", "rn_journal"}
  \/ th[t].op \in {"unlink", "rmdir"} /\ th[t].pc = "rm_after" /\ th[t].trRes = "ok"

\* Thread t appends a record of this type to the journal in this step.
AppendsDelta(t, type) ==
  /\ th'[t] # th[t]
  /\ Len(journal') = Len(journal) + 1
  /\ journal'[Len(journal')].type = type

\* C33: rename appends its Renamed record holding the rename lock and no
\* contents lock, remove appends its Removed record holding the rename
\* lock, and either keeps the rename lock from the change of the entry
\* tables to the append; so at most one moved or erased entry is waiting
\* for its record at any time, and the records are in the order of the
\* changes.
C33_JournalOrder ==
  /\ [](\A t \in Threads :
          StructuralChangePending(t) =>
            /\ renameLock = t
            /\ \A u \in Threads \ {t} : ~StructuralChangePending(u))
  /\ [][\A t \in Threads :
          /\ AppendsDelta(t, "RENAME") =>
               /\ th[t].pc = "rn_journal" /\ renameLock = t /\ Held(t) = {}
               /\ journal'[Len(journal')] =
                    JournalDelta("RENAME", Append(getPath(th[t].self), th[t].name),
                                 Append(getPath(th[t].destParent), th[t].destName))
          /\ AppendsDelta(t, "REMOVED") =>
               /\ th[t].pc = "rm_after" /\ th[t].trRes = "ok" /\ renameLock = t
          /\ (th[t].op = "rename" /\ th[t].pc # "rn_save1" /\ th'[t].pc = "rn_save1") =>
               renameLock = t /\ renameLock' = t
          /\ (th[t].op \in {"unlink", "rmdir"} /\ th[t].pc \in {"tr_lock", "tr_check"}
                /\ th'[t].pc = "rm_after") =>
               renameLock = t /\ renameLock' = t
     ]_vars

\* A rename has moved its entry, saved the listings and released the
\* contents locks, and is about to append its record under the rename
\* lock, for which a remove is waiting.
C33_Witness ==
  \E t \in Threads : \E u \in Threads \ {t} :
    /\ th[t].op = "rename" /\ th[t].pc = "rn_journal"
    /\ renameLock = t /\ Held(t) = {}
    /\ th[u].op \in {"unlink", "rmdir"} /\ th[u].pc = "rm_acq"


(***************************************************************************)
(* The rename lock and the inode that a rename replaces.                   *)
(***************************************************************************)
\* Thread t's rename, having replaced a destination entry, releases the
\* rename lock in this step.
ReleasesAfterReplacing(t) ==
  /\ th[t].op = "rename" /\ th[t].deleted # 0
  /\ renameLock = t /\ renameLock' # t

\* The unlinked inode i is destroyed in this step.
Destroyed(i) == i \in DOMAIN loc /\ isUnlinked(i) /\ i \notin DOMAIN loc'

\* C34 as stated: when a rename that replaced a destination entry releases
\* the rename lock, the replaced inode has been destroyed.
C34_DestroyedBeforeRelease ==
  [][\A t \in Threads :
       ReleasesAfterReplacing(t) => th[t].deleted \notin DOMAIN loc']_vars

\* C34, amended: doRename releases the rename lock first and lets go of the
\* replaced inode afterwards: when the lock is released the unlinked inode
\* still exists, and it is not destroyed while the rename holds it.
C34_ReleasedBeforeDestroyed ==
  [][\A t \in Threads :
       /\ ReleasesAfterReplacing(t) =>
            /\ th[t].pc = "rn_journal"
            /\ th[t].deleted \in DOMAIN loc' /\ loc'[th[t].deleted].unlinked
            /\ renameLock' = NoThread
       /\ (th[t].op = "rename" /\ th[t].deleted # 0) => ~Destroyed(th[t].deleted)
    ]_vars

\* A rename that replaced a destination has returned and recorded itself
\* in the journal; the rename lock is free and the replaced inode, unlinked
\* from the destination name, has not been destroyed yet.
C34_Witness ==
  \E i \in Loaded :
    /\ isUnlinked(i)
    /\ renameLock = NoThread
    /\ journal # <<>>
    /\ journal[Len(journal)].type = "RENAME"
    /\ getPath(loc[i].parent) # NoPath
    /\ journal[Len(journal)].path2 = Append(getPath(loc[i].parent), loc[i].name)
    /\ \A t \in Threads : th[t].deleted # i


(***************************************************************************)
(* The short-circuit rule of checkout.                                     *)
(***************************************************************************)
\* Thread t takes the computeCheckoutActions step of a checkout.
ComputesActions(t) ==
  /\ th[t].op = "checkout" /\ th[t].pc = "co_compute" /\ th'[t].pc = "co_finish"

\* That step returned before the merge walk.
SkipsDirectory(t) == ComputesActions(t) /\ th'[t].co[1].skipped

\* C35 as stated: a directory is skipped only if it has a treeHash and, in
\* a dry run, fromTree is given and is the treeHash, or fromTree is not
\* given and toTree is absent or is the treeHash; in a normal run, the
\* treeHash is toTree's and fromTree's too.
C35_ShortCircuitRule ==
  [][\A t \in Threads :
       SkipsDirectory(t) =>
         LET f == th[t].co[1]
             treeHash == dirs[f.dir].treeHash
         IN
         /\ treeHash # None
         /\ IF isDryRun(th[t].ctx)
            THEN \/ f.from # None /\ treeHash = f.from
                 \/ f.from = None /\ (f.to = None \/ treeHash = f.to)
            ELSE treeHash = f.to /\ f.from = treeHash
    ]_vars


\* C35, amended: computeCheckoutActions skips a directory exactly when it
\* has a treeHash and, in a dry run, fromTree is given and is the treeHash,
\* or fromTree is not given and toTree is absent or is the treeHash; in a
\* normal run, toTree is given and is the treeHash and fromTree is either
\* not given or the treeHash too.  A skipped directory yields no action,
\* no conflict and no change; a materialized directory is never skipped.
C35_ShortCircuitWithoutFromTree ==
  [][\A t \in Threads :
       ComputesActions(t) =>
         LET f == th[t].co[1]
             treeHash == dirs[f.dir].treeHash
         IN
         /\ th'[t].co[1].skipped <=>
              /\ treeHash # None
              /\ IF isDryRun(th[t].ctx)
                 THEN \/ f.from # None /\ treeHash = f.from
                      \/ f.from = None /\ (f.to = None \/ treeHash = f.to)
                 ELSE /\ f.to # None /\ treeHash = f.to
                      /\ f.from = None \/ f.from = treeHash
         /\ th'[t].co[1].skipped =>
              /\ th'[t].co[1].actions = <<>>
              /\ th'[t].ctx = th[t].ctx
              /\ dirs' = dirs /\ loads' = loads /\ nextIno' = nextIno
    ]_vars

\* A force checkout has reached a directory that the commit checked out
\* does not have and the new commit has, and skipped it because the
\* directory's treeHash is already the new one.
C35_Witness ==
  \E t \in Threads :
    /\ th[t].op = "checkout" /\ th[t].pc = "co_finish"
    /\ ~isDryRun(th[t].ctx)
    /\ LET f == th[t].co[1] IN
       /\ f.skipped
       /\ f.from = None /\ f.to # None
       /\ dirs[f.dir].treeHash = f.to


(***************************************************************************)
(* Unloading against lookups.  On the mount of the refusals both threads   *)
(* look names up with getOrLoadChild and call unloadChildrenNow and        *)
(* unloadChildrenLastAccessedBefore.  Every file of this world is loaded   *)
(* by getOrLoadChild itself, which takes its pointer to the new inode      *)
(* inside the locked section; a load completed by inodeLoadComplete        *)
(* (TreeInode.cpp:474-512), which takes the pointer after the lock is      *)
(* released, is not part of this world.                                    *)
(***************************************************************************)
UnloadNames == {"a", "c", "d", "r"}
NextUnload ==
  \/ \E t \in Threads : \E d \in LoadedTrees : \E n \in UnloadNames :
       Present(d, n) /\ Lookup(t, d, n)
  \/ \E t \in Threads : \E d \in LoadedTrees : UnloadChildrenNow(t, d)
  \/ \E t \in Threads : \E d \in LoadedTrees : UnloadChildrenLastAccessedBefore(t, d)
  \/ \E t \in Threads : LoadSteps(t)
  \/ LoadCallbacks
  \/ \E t \in Threads : UnloadSteps(t)

SpecUnload == InitRefuse /\ [][NextUnload]_vars

\* The step clears the loaded pointer of entry n of directory d.
ClearsInode(d, n) ==
  /\ d \in DOMAIN dirs /\ n \in DOMAIN dirs[d].entries /\ dirs[d].entries[n].loaded
  /\ d \in DOMAIN dirs' /\ n \in DOMAIN dirs'[d].entries /\ ~dirs'[d].entries[n].loaded
\* Thread t takes the locked step of an unloadChildren call on d.
UnloadsUnderLocks(t, d) ==
  /\ th[t].pc \in {"un_lock", "ul_lock"}
  /\ th'[t] # th[t]
  /\ UnloadCur(th[t]) = d
  /\ Free(d)
\* The inode map has a record for the number of a loaded entry, and of no
\* other entry.
LoadedIffRecorded ==
  \A d \in LoadedTrees : \A n \in DOMAIN dirs[d].entries :
    dirs[d].entries[n].loaded <=>
      (hasInodeNumber(dirs[d].entries[n]) /\ dirs[d].entries[n].ino \in Loaded)
\* A lookup that has returned an inode holds one that is in memory.
LookupReturnsLive ==
  \A t \in Threads :
    (th[t].op = "lookup" /\ th[t].pc = "op_done" /\ th[t].gRes = "ok")
      => th[t].gIno \in Loaded

NextJournal ==
  \/ \E d \in DirNamed("e") \cup {kRootNodeId} : \E kind \in {"create", "mkdir"} :
       Create("t1", d, "f", kind, FALSE)
  \/ \E d \in LoadedTrees : \E kind \in {"unlink", "rmdir"} :
       Present(d, "f") /\ Remove_("t2", d, "f", kind)
  \/ \E t \in Threads : GetOrLoadChild(t)
  \/ \E t \in Threads : MaterializeSteps(t)
  \/ \E t \in Threads : MaterializeOwnLock(t)
  \/ \E t \in Threads : CreateSteps(t)
  \/ \E t \in Threads : RemoveSteps(t)
  \/ DestroyUnlinked

SpecJournal == InitRefuse /\ [][NextJournal]_vars

\* The records of the journal about path p, as their types in order.
RecordsOf(p) ==
  LET RECURSIVE types(_)
      types(k) ==
        IF k > Len(journal) THEN <<>>
        ELSE IF journal[k].path1 = p THEN <<journal[k].type>> \o types(k + 1)
        ELSE types(k + 1)
  IN types(1)
\* The paths f can be created at.
PathsOfF == {<<"f">>, <<"e", "f">>}

\* C37: the CREATED and REMOVED records of a path come in the order in
\* which its entries were inserted and erased: the entry of f is always
\* inserted before it is erased, so the records of f alternate, beginning
\* with CREATED.
C37_JournalFollowsEntryTable ==
  \A p \in PathsOfF :
    \A k \in 1..Len(RecordsOf(p)) :
      RecordsOf(p)[k] = IF k % 2 = 1 THEN "CREATED" ELSE "REMOVED"

(***************************************************************************)
(* The destination child's contents in rename's validation.                *)
(***************************************************************************)
\* t's rename has a loaded directory as its source and names, as its
\* destination, an existing directory entry whose inode is not loaded.
DirOverUnloadedDir(t) ==
  LET d == th[t].self
      e == th[t].destParent
  IN /\ Present(d, th[t].name) /\ Present(e, th[t].destName)
     /\ isDirectory(dirs[d].entries[th[t].name]) /\ dirs[d].entries[th[t].name].loaded
     /\ isDirectory(dirs[e].entries[th[t].destName])
     /\ ~dirs[e].entries[th[t].destName].loaded

\* C38: rename reads the emptiness of an existing destination directory
\* only from a loaded destination child whose contents lock acquireLocks
\* took; with a loaded directory as source and an existing destination
\* directory that is not loaded, the validating step reads no contents of
\* the destination: it releases its locks and goes on to load the
\* destination and run again.
C38_DestinationReadUnderLock ==
  [][\A t \in Threads :
       /\ (ValidatesRename(t) /\ th'[t].res = "ENOTEMPTY") =>
            /\ lockDestChild(th[t].destParent, th[t].destName) # 0
            /\ lockDestChild(th[t].destParent, th[t].destName) \in Held(t)
       /\ (ValidatesRename(t) /\ DirOverUnloadedDir(t) /\ ~isUnlinked(th[t].destParent)) =>
            /\ th'[t].pc = "rn_load" /\ th'[t].needDest
            /\ Held(t)' = {} /\ renameLock' = NoThread
            /\ dirs' = dirs /\ loc' = loc
    ]_vars

(***************************************************************************)
(* EdenDispatcher: the requests that answer with an entry, and forget.     *)
(***************************************************************************)
\* EdenDispatcher::create / mknod / mkdir / symlink (parent, name):
\* InodeMap::lookupTreeInode(parent), then the TreeInode operation on it.
DispatcherCreate(t, parent, n, kind, isSock) ==
  /\ CanStart(t)
  /\ parent \in Loaded
  /\ th' = Upd(t, IF parent \notin LoadedTrees THEN Finish(t, "ENOTDIR")
                  ELSE IF kind = "mknod" /\ ~isSock THEN Finish(t, "EPERM")
                  ELSE [th[t] EXCEPT !.op = "fuse_entry", !.kind = kind, !.self = parent,
                                     !.name = n, !.pc = "mat", !.matSelf = parent,
                                     !.matRet = "cr_lock", !.haveRL = FALSE])
  /\ UNCHANGED <<dirs, loc, overlay, nextIno, journal, renameLock, clock, loads, futs, dotEden, fuseRefs, requests, channel>>

\* The rest of the request once the child exists: getattr() on the child
\* (for create, on the handle, inside TreeInode::create), incFuseRefcount
\* and the entry of the child.  symlink takes the reference before it
\* asks for the attributes; the others take it in getattr's continuation.
DispatcherEntryAttr(t) ==
  LET r == th[t]
      early == IF r.kind = "symlink" THEN incFuseRefcount(fuseRefs, r.child) ELSE fuseRefs
  IN
  /\ r.pc = "de_attr"
  /\ UNCHANGED <<dirs, loc, overlay, nextIno, journal, renameLock, clock, loads, futs, dotEden,
                 requests, channel>>
  /\ \E attr \in {"ok", "EIO"} :
       IF attr = "ok"
       THEN /\ fuseRefs' = IF r.kind = "symlink" THEN early
                           ELSE incFuseRefcount(fuseRefs, r.child)
            /\ th' = Upd(t, [Finish(t, "ok") EXCEPT !.reply = computeEntryParam(r.child)])
       ELSE /\ fuseRefs' = early
            /\ th' = Upd(t, Finish(t, attr))

\* InodeMap::decFuseRefcount(ino, count)
decFuseRefcount(refs, i, n) ==
  IF refs[i] = n THEN Remove(refs, i) ELSE [refs EXCEPT ![i] = @ - n]

\* EdenDispatcher::forget(ino, nlookup): the kernel gives back nlookup of
\* the references it holds on ino.
DispatcherForget(ino, nlookup) ==
  /\ ino \in DOMAIN fuseRefs
  /\ nlookup <= fuseRefs[ino]
  /\ fuseRefs' = decFuseRefcount(fuseRefs, ino, nlookup)
  /\ UNCHANGED <<dirs, loc, overlay, nextIno, journal, renameLock, clock, loads, futs, dotEden, requests, channel, th>>

(***************************************************************************)
(* The mount of the refusals, on which one thread sends lookup requests    *)
(* for a and f in the root and in the directory e, the other create,       *)
(* mknod, mkdir and symlink requests for f in e and in the file a, and the *)
(* kernel forgets references.                                              *)
(***************************************************************************)
NextEntry ==
  \/ \E p \in {kRootNodeId, 2} : \E n \in {"a", "f"} : DispatcherLookup("t1", p, n)
  \/ \E p \in {2, 4} : \E kind \in CreateKinds : \E isSock \in BOOLEAN :
       DispatcherCreate("t2", p, "f", kind, isSock)
  \/ \E ino \in DOMAIN fuseRefs : \E nlookup \in 1..2 : DispatcherForget(ino, nlookup)
  \/ \E t \in Threads : GetOrLoadChild(t)
  \/ \E t \in Threads : MaterializeSteps(t)
  \/ \E t \in Threads : MaterializeOwnLock(t)
  \/ \E t \in Threads : CreateSteps(t)
  \/ \E t \in Threads : DispatcherLookupAttr(t)
  \/ \E t \in Threads : DispatcherLookupError(t)
  \/ \E t \in Threads : DispatcherEntryAttr(t)

SpecEntry == InitRefuse /\ [][NextEntry]_vars

\* Thread t's request ends in this step with the entry of inode i.
RepliesEntry(t, i) ==
  /\ th[t].op \in {"fuse_lookup", "fuse_entry"}
  /\ th'[t].pc = "idle" /\ th'[t].res = "ok"
  /\ th'[t].reply = computeEntryParam(i)
\* The FUSE reference count of inode i.
FuseRefcount(refs, i) == IF i \in DOMAIN refs THEN refs[i] ELSE 0

\* C39: a step of a lookup, create, mknod, mkdir or symlink request adds
\* one to the FUSE reference count of an inode exactly when it ends the
\* request with the successful entry of that inode, and no other step of
\* a request changes a count; forget(N, n) takes n from the count of N.
C39_RefcountMatchesReplies ==
  [][/\ \A t \in Threads : \A i \in 1..MaxIno :
          (th'[t] # th[t]) =>
            FuseRefcount(fuseRefs', i) =
              FuseRefcount(fuseRefs, i) + (IF RepliesEntry(t, i) THEN 1 ELSE 0)
     /\ (th' = th /\ fuseRefs' # fuseRefs) =>
          \E i \in DOMAIN fuseRefs : \E n \in 1..2 :
            /\ FuseRefcount(fuseRefs', i) = fuseRefs[i] - n
            /\ \A j \in (1..MaxIno) \ {i} :
                 FuseRefcount(fuseRefs', j) = FuseRefcount(fuseRefs, j)
    ]_vars

(***************************************************************************)
(* A create that fails.                                                    *)
(***************************************************************************)
\* Thread t's create takes its step under the contents_ lock.
CreateChecks(t) == th[t].op = "create" /\ th[t].pc = "cr_lock" /\ th'[t] # th[t]

\* C40: a create on an unlinked directory, or of a name the directory
\* holds, fails in its step under the lock, and a create that fails there
\* leaves the entries, the next inode number, the overlay, the inode map
\* and the journal as they were.
C40_FailedCreateLeavesNothing ==
  [][\A t \in Threads :
       /\ (CreateChecks(t)
           /\ (getPath(th[t].self) = NoPath \/ Present(th[t].self, th[t].name))) =>
            /\ th'[t].pc = "idle" /\ th'[t].res # "ok"
       /\ (CreateChecks(t) /\ th'[t].pc = "idle") =>
            /\ th'[t].res # "ok"
            /\ UNCHANGED <<dirs, loc, overlay, nextIno, journal>>
    ]_vars

============================================================================
